---- MODULE Spec2Model ----
(***************************************************************************)
(* Model of auto-palette-rs: the k-d tree neighbour search, the linear     *)
(* neighbour search, the DBSCAN clustering driver, the conversions between *)
(* Rgba, XYZ and Lab, and ImageData::extract.                              *)
(*                                                                         *)
(* Numbers.  The source is generic over a float type F.  The model keeps   *)
(* every coordinate as an integer numerator over the common denominator    *)
(* `unit` (coordinate value = n / unit), so fractional coordinates exist   *)
(* and every comparison the code makes is decided exactly:                 *)
(*   - a distance is kept as m = sum of squared coordinate differences of  *)
(*     the numerators; under SquaredEuclidean it stands for m / unit^2,    *)
(*     under Euclidean for sqrt(m) / unit;                                 *)
(*   - a radius is kept as an integer rho; under SquaredEuclidean it       *)
(*     stands for rho / unit^2, under Euclidean for sqrt(rho) / unit       *)
(*     (a negative rho stands for a negative radius).                      *)
(* Floating-point rounding is not modelled.                                *)
(***************************************************************************)
EXTENDS Integers, Sequences, FiniteSets, TLC

VARIABLES
    dataset,     \* KDTree.dataset / LinearSearch.dataset / fit's dataset: Seq of points
    distance,    \* the DistanceMeasure: "Euclidean" or "SquaredEuclidean"
    unit,        \* denominator of the fixed-point coordinates (see above)
    tie,         \* how the unstable sorts and the heap order equal keys
    root,        \* KDTree.root: <<>> (None) or <<node>>
    call,        \* last neighbour-search call: [op, query, k, radius]
    neighbors,   \* what the KDTree returned for `call`
    linear,      \* what the LinearSearch returned for `call`
    params,      \* dbscan Params: [min_points, epsilon] (the measure is `distance`)
    pc,          \* position of DBSCAN::fit: "idle", "start", "visit", "expand", "result", "done", "panic"
    fit_index,   \* fit: `index` of `for (index, point) in dataset.iter().enumerate()`
    cluster_id,  \* fit: the cluster id counter
    labels,      \* fit: labels[i] for dataset index i, a function on 0..N-1
    queue,       \* expand_cluster: the VecDeque of indices
    result,      \* the DBSCAN value fit returns: [centroids, membership, outliers]
    image,       \* the ImageData: [data, width, height]
    extract_pc,  \* position of ImageData::extract: "idle", "start", "fit", "done", "panic"
    swatches,    \* the Vec<Swatch> extract returns
    colors,      \* color: the chain of colours converted so far, each [space, value, args]
    color_status, \* color: "ok", or "panic" once a conversion of the chain panicked
    weight_fn,    \* graph: the weight function as a matrix, weight_fn[u + 1][v + 1]; its size is vertices.len()
    graph_pc,     \* position of MinimumSpanningTree::build: "idle", "start", "push", "pop", "done"
    attached,     \* build: the HashSet of attached vertices
    candidates,   \* build: the BinaryHeap of candidate edges
    total_weight, \* build: the running total
    current_vertex, \* build: current_index, the vertex attached last
    edges,        \* build: the edges pushed so far
    spanning_tree, \* the MinimumSpanningTree build returns: [weight, edges]
    union_find,   \* the UnionFind: [parent, size, next_label], parent[x + 1] for node x
    uf_pc,        \* position of UnionFind::find: "idle", "climb" (first loop), "compress" (second loop)
    find_x,       \* find: the argument x
    find_root,    \* find: the local `root`
    find_parenet, \* find: the local `parenet`
    uf_return,    \* what the last call of find or union returned: [op, value]
    n_unions,     \* how many times union has been called
    hierarchy,    \* HierarchicalClustering.hierarchy: Seq of [left, right, weight, size]
    hier_pc,      \* position of fit / partition: "idle", "fitted", "split", "label", "done", "assert" (the assertion failed), "index" (an index out of range)
    partition_k,  \* partition: the argument k
    node_ids,     \* partition: the BinaryHeap of node ids, greatest first
    partition_labels, \* partition: the vector `labels`
    partition_cluster_id, \* partition: the counter `cluster_id`
    undone,       \* partition: the node ids its first loop has popped, in order
    initializer,  \* kmeans: the Initializer, "Random" or "KmeansPlusPlus"
    init_k,       \* initialize: the argument k
    init_pc,      \* position of Initializer::initialize: "idle", "start", "random", "kpp", "done"
    selected,     \* random / kmeans_plus_plus: the vector `selected`
    init_centroids, \* random / kmeans_plus_plus: the vector `centroids`
    chosen        \* the dataset indices of the centroids pushed, in order

kdvars == <<dataset, distance, unit, tie, root>>
callvars == <<call, neighbors, linear>>
fitvars == <<params, pc, fit_index, cluster_id, labels, queue, result>>
extractvars == <<image, extract_pc, swatches>>
colorvars == <<colors, color_status>>
graphvars ==
    <<weight_fn, graph_pc, attached, candidates, total_weight, current_vertex, edges, spanning_tree>>
ufvars == <<union_find, uf_pc, find_x, find_root, find_parenet, uf_return, n_unions>>
hiervars ==
    <<hierarchy, hier_pc, partition_k, node_ids, partition_labels, partition_cluster_id, undone>>
initvars == <<initializer, init_k, init_pc, selected, init_centroids, chosen>>
mathvars == <<graphvars, ufvars, hiervars, initvars>>
vars == <<kdvars, callvars, fitvars, extractvars, colorvars, mathvars>>

-----------------------------------------------------------------------------
(* Bounds of the model *)

\* coordinates of the enumerated points are 0..MaxCoord (numerators)
MaxCoord == 2
\* enumerated datasets hold at most MaxPoints points
MaxPoints == 3
\* enumerated min_points are 0..MaxMinPoints
MaxMinPoints == 3
\* enumerated radii are -1..MaxRadius
MaxRadius == 2
\* denominator of the enumerated coordinates: the grid step is 1/Scale
Scale == 2

Measures == {"Euclidean", "SquaredEuclidean"}
Ties == {"stable", "reverse"}

\* Point2 values on the grid
Grid == (0..MaxCoord) \X (0..MaxCoord)

RECURSIVE SeqsUpTo(_, _)
SeqsUpTo(S, n) ==
    IF n = 0 THEN {<<>>}
    ELSE LET shorter == SeqsUpTo(S, n - 1)
         IN shorter \cup {Append(s, x) : s \in {t \in shorter : Len(t) = n - 1}, x \in S}

Datasets == SeqsUpTo(Grid, MaxPoints)

-----------------------------------------------------------------------------
(* math/point.rs, math/distance *)

\* Point::dim of the dataset's first point
Dim(ds) == Len(ds[1])

Abs(x) == IF x < 0 THEN -x ELSE x

RECURSIVE SumSq(_, _, _)
SumSq(lhs, rhs, i) ==
    IF i = 0 THEN 0
    ELSE SumSq(lhs, rhs, i - 1) + (lhs[i] - rhs[i]) * (lhs[i] - rhs[i])

\* DistanceMetric::measure.  Both measures fold the squared differences; the
\* Euclidean one takes the square root, which the representation keeps
\* symbolic (see the header): the returned m is read according to `measure`.
Measure(measure, lhs, rhs) == SumSq(lhs, rhs, Len(lhs))

\* `d1 <= d2` for two distances (or a distance and a radius) of one measure
DistLeq(d1, d2) == d1 <= d2

\* `delta.abs() <= bound` where delta is a coordinate difference (numerator
\* dn over u) and bound a distance or radius of the given measure:
\*   Euclidean:        |dn|/u <= sqrt(bound)/u   <=>  dn^2 <= bound
\*   SquaredEuclidean: |dn|/u <= bound/u^2       <=>  |dn|*u <= bound
AbsDeltaLeq(measure, u, dn, bound) ==
    IF measure = "Euclidean" THEN dn * dn <= bound
    ELSE Abs(dn) * u <= bound

-----------------------------------------------------------------------------
(* math/neighbors/kdtree *)

\* A variant of the sort that leaves the slice as it is
KeepOrder(items, key, t) == items

\* slice::sort_unstable_by on a key: the result is ordered by key; the order
\* of equal keys is not specified, the model keeps it ("stable") or reverses
\* it ("reverse") relative to the order in the slice.
SortByKey(items, key, t) ==
    LET n == Len(items)
        Before(p, q) == \/ key[p] < key[q]
                        \/ key[p] = key[q] /\ (IF t = "stable" THEN p < q ELSE p > q)
        rank == [p \in 1..n |-> Cardinality({q \in 1..n : Before(q, p)}) + 1] \o <<>>
    IN [r \in 1..n |-> items[CHOOSE p \in 1..n : rank[p] = r]] \o <<>>

\* Node::new
Node(index, axis, left, right) ==
    [index |-> index, axis |-> axis, left |-> left, right |-> right]

\* Node::is_leaf
is_leaf(node) == node.left = <<>> /\ node.right = <<>>

\* KDTree::build_node: None is <<>>, Some(node) is <<node>>
RECURSIVE build_node(_, _, _, _)
build_node(ds, indices, depth, t) ==
    IF ds = <<>> \/ indices = <<>> THEN <<>>
    ELSE LET axis == depth % Dim(ds)
             sorted == SortByKey(indices, [p \in 1..Len(indices) |-> ds[indices[p] + 1][axis + 1]], t)
             median == Len(indices) \div 2
         IN <<Node(sorted[median + 1], axis,
                   build_node(ds, SubSeq(sorted, 1, median), depth + 1, t),
                   build_node(ds, SubSeq(sorted, median + 2, Len(sorted)), depth + 1, t))>>

\* KDTree::new
KDTreeNew(ds, t) == build_node(ds, [i \in 1..Len(ds) |-> i - 1], 0, t)

\* Element::new
Element(index, d) == [index |-> index, distance |-> d]

\* BinaryHeap::peek under Element's reversed ordering: the greatest element
\* of the heap is one with the smallest distance
HeapPeek(heap) ==
    CHOOSE e \in {heap[i] : i \in 1..Len(heap)} :
        \A j \in 1..Len(heap) : e.distance <= heap[j].distance

\* The distance the far-subtree test of search_recursively compares |delta| with
PruneBound(heap) == HeapPeek(heap).distance

\* A variant of the drain that hands the elements out in the order they
\* were pushed
HeapInPushOrder(heap, t) == heap

\* Repeated BinaryHeap::pop until empty: elements come out by ascending
\* distance; the order of equal distances is not specified (see SortByKey)
HeapDrain(heap, t) == SortByKey(heap, [p \in 1..Len(heap) |-> heap[p].distance], t)

\* KDTree::search_recursively; returns the heap
RECURSIVE search_recursively(_, _, _, _, _, _, _)
search_recursively(ds, measure, u, node_opt, query, k, heap) ==
    IF node_opt = <<>> THEN heap
    ELSE LET node == node_opt[1]
             index == node.index
             point == ds[index + 1]
             heap1 == Append(heap, Element(index, Measure(measure, point, query)))
         IN IF is_leaf(node) THEN heap1
            ELSE LET delta == query[node.axis + 1] - point[node.axis + 1]
                 IN IF Len(heap1) < k \/ AbsDeltaLeq(measure, u, delta, PruneBound(heap1))
                    THEN search_recursively(ds, measure, u, node.right, query, k,
                             search_recursively(ds, measure, u, node.left, query, k, heap1))
                    ELSE IF delta < 0
                    THEN search_recursively(ds, measure, u, node.left, query, k, heap1)
                    ELSE search_recursively(ds, measure, u, node.right, query, k, heap1)

\* KDTree::search_radius_recursively; returns the elements the call pushes
\* to `results`, in the order it pushes them
RECURSIVE search_radius_recursively(_, _, _, _, _, _)
search_radius_recursively(ds, measure, u, node_opt, query, radius) ==
    IF node_opt = <<>> THEN <<>>
    ELSE LET node == node_opt[1]
             index == node.index
             point == ds[index + 1]
             d == Measure(measure, point, query)
             pushed == IF DistLeq(d, radius) THEN <<Element(index, d)>> ELSE <<>>
             delta == query[node.axis + 1] - point[node.axis + 1]
         IN IF AbsDeltaLeq(measure, u, delta, radius)
            THEN pushed \o search_radius_recursively(ds, measure, u, node.left, query, radius)
                        \o search_radius_recursively(ds, measure, u, node.right, query, radius)
            ELSE IF delta < 0
            THEN pushed \o search_radius_recursively(ds, measure, u, node.left, query, radius)
            ELSE pushed \o search_radius_recursively(ds, measure, u, node.right, query, radius)

\* Neighbor::new
Neighbor(index, d) == [index |-> index, distance |-> d]

\* A variant of search without the early return on k < 1: its pop loop
\* never finds neighbors.len() == 0 and empties the heap
KDTreeSearchUnguarded(ds, measure, u, t, tree, query, k) ==
    LET heap == HeapDrain(search_recursively(ds, measure, u, tree, query, k, <<>>), t)
        n == IF k = 0 \/ Len(heap) < k THEN Len(heap) ELSE k
    IN [i \in 1..n |-> Neighbor(heap[i].index, heap[i].distance)]

\* KDTree::search
KDTreeSearch(ds, measure, u, t, tree, query, k) ==
    IF k < 1 THEN <<>>
    ELSE LET heap == HeapDrain(search_recursively(ds, measure, u, tree, query, k, <<>>), t)
             n == IF Len(heap) < k THEN Len(heap) ELSE k
         IN [i \in 1..n |-> Neighbor(heap[i].index, heap[i].distance)]

\* KDTree::search_radius
KDTreeSearchRadius(ds, measure, u, t, tree, query, radius) ==
    IF radius < 0 THEN <<>>
    ELSE LET results == HeapDrain(
                 search_radius_recursively(ds, measure, u, tree, query, radius), t)
         IN [i \in 1..Len(results) |-> Neighbor(results[i].index, results[i].distance)]

-----------------------------------------------------------------------------
(* math/neighbors/linear.rs *)

\* LinearSearch::search
LinearSearchSearch(ds, measure, t, query, k) ==
    IF k = 0 THEN <<>>
    ELSE LET all == [i \in 1..Len(ds) |-> Neighbor(i - 1, Measure(measure, ds[i], query))]
             sorted == SortByKey(all, [i \in 1..Len(ds) |-> all[i].distance], t)
             n == IF Len(ds) < k THEN Len(ds) ELSE k
         IN SubSeq(sorted, 1, n)

\* LinearSearch::search_radius
LinearSearchSearchRadius(ds, measure, query, radius) ==
    IF radius < 0 THEN <<>>
    ELSE LET all == [i \in 1..Len(ds) |-> Neighbor(i - 1, Measure(measure, ds[i], query))]
             Within(nb) == DistLeq(nb.distance, radius)
         IN SelectSeq(all, Within)

-----------------------------------------------------------------------------
(* math/clustering/dbscan *)

\* enum Label
Undefined == [tag |-> "Undefined", id |-> 0]
Marked == [tag |-> "Marked", id |-> 0]
Outlier == [tag |-> "Outlier", id |-> 0]
Assigned(c) == [tag |-> "Assigned", id |-> c]

is_assigned(label) == label.tag = "Assigned"
is_outlier(label) == label.tag = "Outlier"
is_undefined(label) == label.tag = "Undefined"

\* Params::new
Params(min_points, epsilon) == [min_points |-> min_points, epsilon |-> epsilon]

\* neighbors.iter().map(|n| n.index)
NeighborIndices(nbs) == [i \in 1..Len(nbs) |-> nbs[i].index]

\* fit: neighbors.iter().for_each(|neighbor| labels[neighbor.index] = Label::Marked)
MarkNeighbors(lbls, nbs) ==
    [i \in DOMAIN lbls |-> IF i \in {nbs[j].index : j \in 1..Len(nbs)} THEN Marked ELSE lbls[i]]

\* A variant of the loop over secondary_neighbors that marks nothing
MarkNoSecondary(lbls, nbs) == lbls

\* expand_cluster, the loop over secondary_neighbors: the labels afterwards
\* (every Undefined secondary neighbour becomes Marked)
MarkSecondary(lbls, nbs) ==
    [i \in DOMAIN lbls |->
        IF i \in {nbs[j].index : j \in 1..Len(nbs)} /\ is_undefined(lbls[i]) THEN Marked
        ELSE lbls[i]]

\* A variant of the queue pushes that leaves out the Undefined neighbours
PushedOutliers(lbls, nbs) ==
    LET Pushed(i) == is_outlier(lbls[i])
    IN SelectSeq(NeighborIndices(nbs), Pushed)

\* expand_cluster, the loop over secondary_neighbors: the indices pushed to
\* the back of the queue, in order (Undefined and Outlier secondary neighbours)
PushedSecondary(lbls, nbs) ==
    LET Pushed(i) == is_undefined(lbls[i]) \/ is_outlier(lbls[i])
    IN SelectSeq(NeighborIndices(nbs), Pushed)

\* One iteration of `while let Some(current_index) = queue.pop_front()` of
\* expand_cluster; returns the labels and the queue afterwards
expand_step(ds, measure, u, t, tree, prm, cid, lbls, q) ==
    LET current_index == Head(q)
        rest == Tail(q)
    IN IF is_assigned(lbls[current_index])
       THEN [labels |-> lbls, queue |-> rest]
       ELSE IF is_outlier(lbls[current_index])
       THEN [labels |-> [lbls EXCEPT ![current_index] = Assigned(cid)], queue |-> rest]
       ELSE LET lbls1 == [lbls EXCEPT ![current_index] = Assigned(cid)]
                secondary_neighbors ==
                    KDTreeSearchRadius(ds, measure, u, t, tree, ds[current_index + 1], prm.epsilon)
            IN IF Len(secondary_neighbors) < prm.min_points
               THEN [labels |-> lbls1, queue |-> rest]
               ELSE [labels |-> MarkSecondary(lbls1, secondary_neighbors),
                     queue |-> rest \o PushedSecondary(lbls1, secondary_neighbors)]

\* P::zero()
PointZero(dim) == [a \in 1..dim |-> 0]

\* Point::add
PointAdd(lhs, rhs) == [a \in 1..Len(lhs) |-> lhs[a] + rhs[a]]

\* centroid.add_assign(dataset[index]) over the indices idxs[lo..hi]
RECURSIVE SumPoints(_, _, _, _)
SumPoints(ds, idxs, lo, hi) ==
    IF lo > hi THEN PointZero(Dim(ds))
    ELSE IF lo = hi THEN PointAdd(PointZero(Dim(ds)), ds[idxs[lo] + 1])
    ELSE LET mid == (lo + hi) \div 2
         IN PointAdd(SumPoints(ds, idxs, lo, mid), SumPoints(ds, idxs, mid + 1, hi))

\* A variant of the division whose divisor is one too large
PointDivByOneMore(point, divisor) == [num |-> point, den |-> divisor + 1]

\* centroid.div_assign(divisor): every coordinate becomes num[a] / den (over
\* `unit`); the quotient is kept as the pair
PointDiv(point, divisor) == [num |-> point, den |-> divisor]

\* div_assign panics on a zero divisor
DivPanics(divisor) == divisor = 0

\* A DBSCAN value
DBSCANValue(centroids, membership, outliers) ==
    [centroids |-> centroids, membership |-> membership, outliers |-> outliers]

EmptyMap == [c \in {} |-> <<>>]
EmptyDBSCAN == DBSCANValue(EmptyMap, EmptyMap, <<>>)

\* The cluster ids the result-building loop of fit inserts into its maps
AssignedIds(lbls) == {lbls[i].id : i \in {j \in DOMAIN lbls : is_assigned(lbls[j])}}

\* A variant of the children that takes the Outlier indices in as well
ChildrenAndOutliers(lbls, c) ==
    LET IsChild(i) == lbls[i] = Assigned(c) \/ is_outlier(lbls[i])
    IN SelectSeq([i \in 1..Cardinality(DOMAIN lbls) |-> i - 1], IsChild)

\* fit: children of a cluster, pushed in the order of the dataset indices
Children(lbls, c) ==
    LET IsChild(i) == lbls[i] = Assigned(c)
    IN SelectSeq([i \in 1..Cardinality(DOMAIN lbls) |-> i - 1], IsChild)

\* fit after the labelling loop: the arm a label takes in the result loop;
\* a Marked or Undefined label hits unreachable!()
HitsUnreachable(lbls) ==
    \E i \in DOMAIN lbls : ~is_assigned(lbls[i]) /\ ~is_outlier(lbls[i])

\* fit after the labelling loop: centroids, membership and outliers
BuildResult(ds, lbls) ==
    LET ids == AssignedIds(lbls)
        membership == [c \in ids |-> Children(lbls, c)]
        centroids == [c \in ids |->
                         PointDiv(SumPoints(ds, membership[c], 1, Len(membership[c])),
                                  Len(membership[c]))]
        IsOutlier(i) == is_outlier(lbls[i])
        outliers == SelectSeq([i \in 1..Len(ds) |-> i - 1], IsOutlier)
    IN DBSCANValue(centroids, membership, outliers)

\* A variant of count_at that counts the outliers in as well
count_with_outliers(db, id) ==
    IF id \in DOMAIN db.membership THEN Len(db.membership[id]) + Len(db.outliers) ELSE 0

\* DBSCAN::count_at
count_at(db, id) == IF id \in DOMAIN db.membership THEN Len(db.membership[id]) ELSE 0

\* The locals of one run of DBSCAN::fit, with the position `pc` in its code:
\* "start", "visit" (the labelling loop), "expand" (inside expand_cluster),
\* "done" (returned), "panic"
FitState(at, tree, index, cid, lbls, q, db) ==
    [pc |-> at, root |-> tree, fit_index |-> index, cluster_id |-> cid,
     labels |-> lbls, queue |-> q, result |-> db]

\* fit on entry
FitEntry == FitState("start", <<>>, 0, 0, <<>>, <<>>, EmptyDBSCAN)

\* fit up to the labelling loop: the empty dataset returns at once, any other
\* gets its KDTree and its labels
fit_start(ds, t, st) ==
    IF ds = <<>>
    THEN [st EXCEPT !.pc = "done", !.result = EmptyDBSCAN]
    ELSE [st EXCEPT !.pc = "visit",
                    !.root = KDTreeNew(ds, t),
                    !.labels = [i \in 0..(Len(ds) - 1) |-> Undefined]]

\* One iteration of `for (index, point) in dataset.iter().enumerate()`, up
\* to the call of expand_cluster
fit_visit(ds, measure, u, t, prm, st) ==
    IF ~is_undefined(st.labels[st.fit_index])
    THEN [st EXCEPT !.fit_index = st.fit_index + 1]
    ELSE LET nbs == KDTreeSearchRadius(ds, measure, u, t, st.root,
                                       ds[st.fit_index + 1], prm.epsilon)
         IN IF Len(nbs) < prm.min_points
            THEN [st EXCEPT !.labels[st.fit_index] = Outlier,
                            !.fit_index = st.fit_index + 1]
            ELSE [st EXCEPT !.labels = MarkNeighbors(st.labels, nbs),
                            !.queue = NeighborIndices(nbs),
                            !.pc = "expand"]

\* expand_cluster: one pop of the queue
fit_expand(ds, measure, u, t, prm, st) ==
    LET after == expand_step(ds, measure, u, t, st.root, prm, st.cluster_id,
                             st.labels, st.queue)
    IN [st EXCEPT !.labels = after.labels, !.queue = after.queue]

\* expand_cluster returns on the empty queue; fit goes on: cluster_id += 1
fit_expand_return(st) ==
    [st EXCEPT !.pc = "visit",
               !.cluster_id = st.cluster_id + 1,
               !.fit_index = st.fit_index + 1]

\* fit after the labelling loop: build centroids, membership and outliers
fit_result(ds, st) ==
    IF \/ HitsUnreachable(st.labels)
       \/ \E c \in AssignedIds(st.labels) : DivPanics(Len(Children(st.labels, c)))
    THEN [st EXCEPT !.pc = "panic"]
    ELSE [st EXCEPT !.pc = "done", !.result = BuildResult(ds, st.labels)]

\* The next step of fit from st (none once it has returned or panicked)
fit_step(ds, measure, u, t, prm, st) ==
    CASE st.pc = "start" -> fit_start(ds, t, st)
      [] st.pc = "visit" /\ st.fit_index < Len(ds) -> fit_visit(ds, measure, u, t, prm, st)
      [] st.pc = "visit" /\ st.fit_index = Len(ds) -> fit_result(ds, st)
      [] st.pc = "expand" /\ st.queue # <<>> -> fit_expand(ds, measure, u, t, prm, st)
      [] st.pc = "expand" /\ st.queue = <<>> -> fit_expand_return(st)
      [] st.pc \in {"done", "panic"} -> st

\* n steps of fit from st, or fewer if it returns or panics before
RECURSIVE fit_steps(_, _, _, _, _, _, _)
fit_steps(ds, measure, u, t, prm, st, n) ==
    IF n = 0 \/ st.pc \in {"done", "panic"} THEN st
    ELSE IF n = 1 THEN fit_step(ds, measure, u, t, prm, st)
    ELSE LET half == fit_steps(ds, measure, u, t, prm, st, n \div 2)
         IN fit_steps(ds, measure, u, t, prm, half, n - (n \div 2))

\* fit from st to its return or panic
RECURSIVE fit_run(_, _, _, _, _, _)
fit_run(ds, measure, u, t, prm, st) ==
    IF st.pc \in {"done", "panic"} THEN st
    ELSE fit_run(ds, measure, u, t, prm, fit_steps(ds, measure, u, t, prm, st, 2 * Len(ds) + 2))

\* DBSCAN::fit as one call: the state it ends in
DBSCANFit(ds, measure, u, t, prm) == fit_run(ds, measure, u, t, prm, FitEntry)

-----------------------------------------------------------------------------
(* color: the conversions between Rgba, XYZ and Lab.                        *)
(*                                                                          *)
(* A float of a colour is kept as a whole number of 1 / Fix (six decimals); *)
(* products and quotients are cut to that precision, roots and powers are   *)
(* found by bisection on it.  A converted channel is then within about      *)
(* 0.05 of an 8-bit level of what exact arithmetic gives.  NaN is the       *)
(* float for which every comparison is false.                               *)

Fix == 1000000

\* Rgba::max_value
RgbaMax == 255

\* NaN, coded as a number below every float the model computes
NaN == 0 - 2000 * Fix

\* a < b and a > b on floats
FloatLt(a, b) == a # NaN /\ b # NaN /\ a < b
FloatGt(a, b) == a # NaN /\ b # NaN /\ a > b

\* a * b of two floats, cut towards zero
MulFix(a, b) ==
    LET x == Abs(a)
        y == Abs(b)
        p == (x \div 1000) * (y \div 1000)
             + ((x \div 1000) * (y % 1000) + (x % 1000) * (y \div 1000)
                + ((x % 1000) * (y % 1000)) \div 1000) \div 1000
    IN IF (a < 0) # (b < 0) THEN 0 - p ELSE p

\* acc followed by the first n decimals of r / b, for 0 <= r < b
RECURSIVE DivDigits(_, _, _, _)
DivDigits(acc, r, b, n) ==
    IF n = 0 THEN acc
    ELSE DivDigits(10 * acc + (10 * r) \div b, (10 * r) % b, b, n - 1)

\* a / b of two floats, b > 0, cut towards zero
DivFix(a, b) ==
    LET x == Abs(a)
        q == DivDigits(x \div b, x % b, b, 6)
    IN IF a < 0 THEN 0 - q ELSE q

\* t * t * t
Cube(t) == MulFix(MulFix(t, t), t)

\* the largest y in lo..hi with y^3 <= t
RECURSIVE CbrtSearch(_, _, _)
CbrtSearch(t, lo, hi) ==
    IF lo = hi THEN lo
    ELSE IF Cube((lo + hi + 1) \div 2) <= t
         THEN CbrtSearch(t, (lo + hi + 1) \div 2, hi)
         ELSE CbrtSearch(t, lo, (lo + hi + 1) \div 2 - 1)

\* t.cbrt() for 0 <= t <= 8
Cbrt(t) == CbrtSearch(t, 0, 2 * Fix)

\* sq * sq * y for sq = y * y
FifthOfSquare(y, sq) == MulFix(MulFix(sq, sq), y)

\* the largest y in lo..hi with y^5 <= t
RECURSIVE Root5Search(_, _, _)
Root5Search(t, lo, hi) ==
    IF lo = hi THEN lo
    ELSE IF FifthOfSquare((lo + hi + 1) \div 2,
                          MulFix((lo + hi + 1) \div 2, (lo + hi + 1) \div 2)) <= t
         THEN Root5Search(t, (lo + hi + 1) \div 2, hi)
         ELSE Root5Search(t, lo, (lo + hi + 1) \div 2 - 1)

\* sq.powf(1.2) as sq * sq^(1/5)
PowOfSquare(sq) == MulFix(sq, Root5Search(sq, 0, 2 * Fix))

\* v.powf(2.4) for 0 <= v <= 2, as (v^2)^(1.2)
Powf24(v) == PowOfSquare(MulFix(v, v))

\* the largest y in lo..hi with y.powf(2.4) <= v
RECURSIVE InvPowfSearch(_, _, _)
InvPowfSearch(v, lo, hi) ==
    IF lo = hi THEN lo
    ELSE IF Powf24((lo + hi + 1) \div 2) <= v
         THEN InvPowfSearch(v, (lo + hi + 1) \div 2, hi)
         ELSE InvPowfSearch(v, lo, (lo + hi + 1) \div 2 - 1)

\* v.powf(1.0 / 2.4) for 0 <= v <= 5
InvPowf24(v) == InvPowfSearch(v, 0, 2 * Fix)

\* (f * Rgba::max_value()).round(), halves away from zero, computed without
\* leaving the machine integers
RoundTimesMax(f) ==
    LET whole == Abs(f) \div Fix
        rest == Abs(f) % Fix
        q == RgbaMax * whole + (RgbaMax * rest + Fix \div 2) \div Fix
    IN IF f < 0 THEN 0 - q ELSE q

\* Clamp::clamp for floats: a NaN is neither below min nor above max
Clamp(value, min, max) ==
    IF FloatLt(value, min) THEN min
    ELSE IF FloatGt(value, max) THEN max
    ELSE value

\* D65: WhitePoint::x, y, z
D65 == <<950460, Fix, 1089060>>

\* XYZ::min_x .. XYZ::max_z: the box XYZ::new clamps to
XYZMin == <<0, 0, 0>>
XYZMax == <<950456, Fix, 1088644>>

\* Lab::min_l .. Lab::max_b: the box Lab::new clamps to
LabMin == <<0, 0 - 128 * Fix, 0 - 128 * Fix>>
LabMax == <<100 * Fix, 127 * Fix, 127 * Fix>>

\* XYZ::new
XYZNew(x, y, z) ==
    << Clamp(x, XYZMin[1], XYZMax[1]),
       Clamp(y, XYZMin[2], XYZMax[2]),
       Clamp(z, XYZMin[3], XYZMax[3]) >>

\* Lab::new
LabNew(l, a, b) ==
    << Clamp(l, LabMin[1], LabMax[1]),
       Clamp(a, LabMin[2], LabMax[2]),
       Clamp(b, LabMin[3], LabMax[3]) >>

\* XYZ::from(&Rgba): the closure f, on value / Rgba::max_value
RgbaLinear(v) ==
    IF v <= 40450 THEN DivFix(v, 12920000)
    ELSE Powf24(DivFix(v + 55000, 1055000))

\* XYZ::from(&Rgba) once f has been applied to the three channels
XYZOfLinear(fr, fg, fb) ==
    XYZNew(MulFix(412391, fr) + MulFix(357584, fg) + MulFix(180481, fb),
           MulFix(212639, fr) + MulFix(715169, fg) + MulFix(72192, fb),
           MulFix(19331, fr) + MulFix(119195, fg) + MulFix(950532, fb))

\* XYZ::from(&Rgba); rgba is <<r, g, b, a>> and a is not read
XYZFromRgba(rgba) ==
    XYZOfLinear(RgbaLinear((rgba[1] * Fix) \div RgbaMax),
                RgbaLinear((rgba[2] * Fix) \div RgbaMax),
                RgbaLinear((rgba[3] * Fix) \div RgbaMax))

\* Lab::from(&XYZ): the closure f, epsilon = (6/29)^3, kappa = 841/108,
\* delta = 4/29
LabF(t) ==
    IF t > 8856 THEN Cbrt(t)
    ELSE MulFix(7787037, t) + 137931

\* Lab::from(&XYZ) once f has been applied to x / W::x, y / W::y, z / W::z
LabOfF(fx, fy, fz) ==
    LabNew(116 * fy - 16 * Fix, 500 * (fx - fy), 200 * (fy - fz))

\* Lab::from(&XYZ)
LabFromXYZ(xyz) ==
    LabOfF(LabF(DivFix(xyz[1], D65[1])),
           LabF(DivFix(xyz[2], D65[2])),
           LabF(DivFix(xyz[3], D65[3])))

\* value / n for a whole n, cut towards zero
DivWhole(value, n) == IF value < 0 THEN 0 - (Abs(value) \div n) ELSE value \div n

\* XYZ::from(&Lab): the closure f, epsilon = 6/29, kappa = 108/841,
\* delta = 4/29
XYZF(t) ==
    IF t > 206897 THEN Cube(t)
    ELSE MulFix(128419, t - 137931)

\* XYZ::from(&Lab) once l2 = (l + 16) / 116, a2 = a / 500, b2 = b / 200
XYZOfL2(l2, a2, b2) ==
    XYZNew(MulFix(D65[1], XYZF(l2 + a2)),
           MulFix(D65[2], XYZF(l2)),
           MulFix(D65[3], XYZF(l2 - b2)))

\* XYZ::from(&Lab)
XYZFromLab(lab) ==
    XYZOfL2(DivWhole(lab[1] + 16 * Fix, 116), DivWhole(lab[2], 500),
            DivWhole(lab[3], 200))

\* a variant of the closure f that leaves out the offset 0.055
RgbaGammaNoOffset(v) ==
    IF 10 * v <= 31308 THEN MulFix(12920000, v)
    ELSE MulFix(1055000, InvPowf24(v))

\* Rgba::from(&XYZ): the closure f
RgbaGamma(v) ==
    IF 10 * v <= 31308 THEN MulFix(12920000, v)
    ELSE MulFix(1055000, InvPowf24(v)) - 55000

\* Rgba::normalize_value on an already rounded value: to_u8 gives None
\* outside 0..255 and expect then panics
normalize_value(rounded) ==
    IF rounded < 0 \/ rounded > RgbaMax
    THEN [status |-> "panic", value |-> rounded]
    ELSE [status |-> "ok", value |-> rounded]

\* Rgba::from(&XYZ) once the three channels are normalized
RgbaOfChannels(r, g, b) ==
    IF r.status = "panic" \/ g.status = "panic" \/ b.status = "panic"
    THEN [status |-> "panic", value |-> <<r.value, g.value, b.value>>]
    ELSE [status |-> "ok", value |-> <<r.value, g.value, b.value, RgbaMax>>]

\* Rgba::from(&XYZ) once f has been applied to the three linear channels
RgbaOfGamma(fr, fg, fb) ==
    RgbaOfChannels(normalize_value(RoundTimesMax(fr)),
                   normalize_value(RoundTimesMax(fg)),
                   normalize_value(RoundTimesMax(fb)))

\* Rgba::from(&XYZ)
RgbaFromXYZ(xyz) ==
    RgbaOfGamma(
        RgbaGamma(MulFix(3240970, xyz[1]) - MulFix(1537383, xyz[2]) - MulFix(498611, xyz[3])),
        RgbaGamma(MulFix(1875968, xyz[2]) - MulFix(969244, xyz[1]) + MulFix(41555, xyz[3])),
        RgbaGamma(MulFix(55630, xyz[1]) - MulFix(203977, xyz[2]) + MulFix(1056972, xyz[3])))

-----------------------------------------------------------------------------
(* image.rs, swatch.rs *)

\* extract: delta_l = Lab::max_l - Lab::min_l, delta_a, delta_b
DeltaL == 100
DeltaA == 255
DeltaB == 255

\* extract: Params::new(25, F::from_f64(0.025), EuclideanDistance); the
\* epsilon 0.025 is 1 / EpsilonInverse
ExtractMinPoints == 25
EpsilonInverse == 40

\* a float to the nearest whole number, halves away from zero
Round(value) ==
    IF value < 0 THEN 0 - ((Abs(value) + Fix \div 2) \div Fix)
    ELSE (value + Fix \div 2) \div Fix

\* a Lab colour kept to whole Lab units
WholeLab(lab) == <<Round(lab[1]), Round(lab[2]), Round(lab[3])>>

\* a variant of the pixel's Lab colour that takes a fully transparent pixel
\* for black
RgbaToLabOverBlack(r, g, b, alpha) ==
    IF alpha = 0 THEN <<0, 0, 0>>
    ELSE WholeLab(LabFromXYZ(XYZFromRgba(<<r, g, b, alpha>>)))

\* extract: Lab::from(&XYZ::from(&rgba)) of a pixel, kept to whole Lab units
\* (black is Lab(0, 0, 0); white, Lab(100, -0.0007, 0.0255) in lab.rs's test
\* from_xyz_should_convert_to_lab, is kept as (100, 0, 0))
RgbaToLab(r, g, b, alpha) == WholeLab(LabFromXYZ(XYZFromRgba(<<r, g, b, alpha>>)))

\* extract: Rgba::from(&XYZ::from(&lab)) on the two colours the model's
\* images are made of, black and white
LabToRgb(lab) ==
    CASE lab = <<0, 0, 0>> -> <<0, 0, 0>>
      [] lab = <<DeltaL, 0, 0>> -> <<RgbaMax, RgbaMax, RgbaMax>>

\* The denominator the feature points of an image are kept over: x / width,
\* y / height and epsilon are whole numbers of 1 / unit (an image without
\* bytes has no feature points, only the epsilon)
FeatureUnit(img) ==
    IF Len(img.data) = 0 THEN EpsilonInverse
    ELSE EpsilonInverse * img.width * img.height

\* extract reads no byte and divides by neither width nor height when data is
\* empty; otherwise data[index + 3] is out of bounds for a trailing partial
\* pixel and `% width_u64`, `/ width_u64`, `% height_u64` panic on zero
BuildPanics(img) ==
    /\ Len(img.data) > 0
    /\ \/ Len(img.data) % 4 # 0
       \/ img.width = 0
       \/ img.height = 0

\* extract, the while loop: the Point5 pushed for the pixel at byte `at`
\* (0-based), numerators over FeatureUnit
FeaturePoint(img, at) ==
    LET u == FeatureUnit(img)
        lab == RgbaToLab(img.data[at + 1], img.data[at + 2], img.data[at + 3], img.data[at + 4])
        x == (at \div 4) % img.width
        y == ((at \div 4) \div img.width) % img.height
    IN << (lab[1] * u) \div DeltaL, (lab[2] * u) \div DeltaA, (lab[3] * u) \div DeltaB,
          (x * u) \div img.width, (y * u) \div img.height >>

\* extract, the while loop: pixels
Pixels(img) == [p \in 1..(Len(img.data) \div 4) |-> FeaturePoint(img, 4 * (p - 1))] \o <<>>

\* extract: the epsilon of the Params as a Euclidean radius over
\* FeatureUnit: sqrt(rho) / unit = 1 / EpsilonInverse
ExtractEpsilon(img) ==
    LET u == FeatureUnit(img)
    IN (u \div EpsilonInverse) * (u \div EpsilonInverse)

\* dbscan.centroids(): the values of the centroid HashMap in the iteration
\* order `order` of its keys
centroids(db, order) == [i \in 1..Len(order) |-> db.centroids[order[i]]]

\* The Swatch extract makes of a centroid and a member count
SwatchOf(img, centroid, count, total) ==
    LET u == FeatureUnit(img)
        lab == << (centroid.num[1] * DeltaL) \div (centroid.den * u),
                  (centroid.num[2] * DeltaA) \div (centroid.den * u),
                  (centroid.num[3] * DeltaB) \div (centroid.den * u) >>
        x == (centroid.num[4] * img.width) \div (centroid.den * u)
        y == (centroid.num[5] * img.height) \div (centroid.den * u)
    IN [color |-> LabToRgb(lab),
        position |-> <<x, y>>,
        percentage |-> [num |-> count, den |-> total]]

\* extract: dbscan.centroids().into_iter().enumerate().map(...).collect()
MapSwatches(img, db, order, total) ==
    LET cs == centroids(db, order)
    IN [i \in 1..Len(cs) |-> SwatchOf(img, cs[i], count_at(db, i - 1), total)]

\* swatches.sort(): a stable sort by Swatch::cmp, which compares the
\* percentages (all over the same denominator pixels.len())
SortSwatches(sw) == SortByKey(sw, [i \in 1..Len(sw) |-> sw[i].percentage.num], "stable")

\* All orders of the elements of a set
RECURSIVE Orders(_)
Orders(S) ==
    IF S = {} THEN {<<>>}
    ELSE UNION {{<<x>> \o o : o \in Orders(S \ {x})} : x \in S}

-----------------------------------------------------------------------------
(* Specification SpecKD: a tree and a linear scan over one dataset answer   *)
(* the same queries.                                                        *)

\* no extract is running
ExtractIdle ==
    /\ image = [data |-> <<>>, width |-> 0, height |-> 0]
    /\ extract_pc = "idle"
    /\ swatches = <<>>

\* no colour has been made
ColorIdle ==
    /\ colors = <<>>
    /\ color_status = "ok"

\* MinimumSpanningTree { weight, edges }
MinimumSpanningTree(weight, tree_edges) == [weight |-> weight, edges |-> tree_edges]

\* no build is running
GraphIdle ==
    /\ weight_fn = <<>>
    /\ graph_pc = "idle"
    /\ attached = {}
    /\ candidates = {}
    /\ total_weight = 0
    /\ current_vertex = 0
    /\ edges = <<>>
    /\ spanning_tree = MinimumSpanningTree(0, <<>>)

\* struct UnionFind
UnionFind(parent, size, next_label) == [parent |-> parent, size |-> size, next_label |-> next_label]

NoReturn == [op |-> "none", value |-> 0]

\* no UnionFind has been made
UnionFindIdle ==
    /\ union_find = UnionFind(<<>>, <<>>, 0)
    /\ uf_pc = "idle"
    /\ find_x = 0
    /\ find_root = 0
    /\ find_parenet = 0
    /\ uf_return = NoReturn
    /\ n_unions = 0

\* no HierarchicalClustering has been fitted
HierIdle ==
    /\ hierarchy = <<>>
    /\ hier_pc = "idle"
    /\ partition_k = 0
    /\ node_ids = <<>>
    /\ partition_labels = <<>>
    /\ partition_cluster_id = 0
    /\ undone = <<>>

\* no initialize is running
InitializerIdle ==
    /\ initializer = "Random"
    /\ init_k = 0
    /\ init_pc = "idle"
    /\ selected = <<>>
    /\ init_centroids = <<>>
    /\ chosen = <<>>

MathIdle == GraphIdle /\ UnionFindIdle /\ HierIdle /\ InitializerIdle

NoCall == [op |-> "none", query |-> <<0, 0>>, k |-> 0, radius |-> 0]

\* no fit is running
FitIdle ==
    /\ params = Params(0, 0)
    /\ pc = "idle"
    /\ fit_index = 0
    /\ cluster_id = 0
    /\ labels = <<>>
    /\ queue = <<>>
    /\ result = EmptyDBSCAN

\* DATASET of the tests of kdtree/mod.rs
KDTestDataset ==
    << <<1, 2>>, <<3, 1>>, <<4, 5>>, <<5, 5>>, <<2, 4>>, <<0, 5>>, <<2, 1>>, <<5, 2>> >>

\* Four points whose tree has <<3,3>> at the root, <<0,2>> and <<4,0>> as its
\* children and <<2,1>> below <<0,2>>
FarBranchDataset == << <<3, 3>>, <<0, 2>>, <<2, 1>>, <<4, 0>> >>

\* Three points on the 1/8 grid (unit SkewUnit) with pairwise different x and
\* pairwise different y: the tree has <<1,3>> at the root, <<0,0>> to its
\* left and <<2,1>> to its right.  <<0,0>> and <<2,1>> are at squared
\* distance 5/64, the radius SkewRadius stands for under SquaredEuclidean.
SkewDataset == << <<0, 0>>, <<1, 3>>, <<2, 1>> >>
SkewUnit == 8
SkewRadius == 5

\* The query of the tests of kdtree/mod.rs
TestQuery == <<3, 3>>

Queries == Grid \cup {TestQuery}

\* The datasets the searches are built over: every enumerated dataset (grid
\* step 1/Scale), the two test-sized ones above (whole-number coordinates)
\* and SkewDataset
KDCase(points, u) == [points |-> points, unit |-> u]

KDCases ==
    {KDCase(ds, Scale) : ds \in Datasets}
    \cup {KDCase(KDTestDataset, 1), KDCase(FarBranchDataset, 1), KDCase(SkewDataset, SkewUnit)}

Radii == ((-1)..MaxRadius) \cup {SkewRadius}

InitKD ==
    /\ \E case \in KDCases : dataset = case.points /\ unit = case.unit
    /\ distance \in Measures
    /\ tie \in Ties
    /\ root = KDTreeNew(dataset, tie)
    /\ call = NoCall
    /\ neighbors = <<>>
    /\ linear = <<>>
    /\ FitIdle
    /\ ExtractIdle
    /\ ColorIdle
    /\ MathIdle

\* NeighborSearch::search on both implementations
Search(query, k) ==
    /\ call.op = "none"
    /\ call' = [op |-> "search", query |-> query, k |-> k, radius |-> 0]
    /\ neighbors' = KDTreeSearch(dataset, distance, unit, tie, root, query, k)
    /\ linear' = LinearSearchSearch(dataset, distance, tie, query, k)
    /\ UNCHANGED <<kdvars, fitvars, extractvars, colorvars, mathvars>>

\* NeighborSearch::search_radius on both implementations
SearchRadius(query, radius) ==
    /\ call.op = "none"
    /\ call' = [op |-> "search_radius", query |-> query, k |-> 0, radius |-> radius]
    /\ neighbors' = KDTreeSearchRadius(dataset, distance, unit, tie, root, query, radius)
    /\ linear' = LinearSearchSearchRadius(dataset, distance, query, radius)
    /\ UNCHANGED <<kdvars, fitvars, extractvars, colorvars, mathvars>>

NextKD ==
    \/ \E query \in Queries, k \in 0..(MaxPoints + 1) : Search(query, k)
    \/ \E query \in Queries, radius \in Radii : SearchRadius(query, radius)

SpecKD == InitKD /\ [][NextKD]_vars

-----------------------------------------------------------------------------
(* Specification SpecCalls: the searches of SpecKD and DBSCAN::fit as one   *)
(* call, over the same datasets.                                            *)

\* DBSCAN::fit as one call on the dataset, with Params::new(min_points, epsilon, distance)
FitCall(min_points, epsilon) ==
    /\ call.op = "none"
    /\ call' = [op |-> "fit", query |-> <<>>, k |-> 0, radius |-> 0]
    /\ \E dbscan \in {DBSCANFit(dataset, distance, unit, tie, Params(min_points, epsilon))} :
           /\ params' = Params(min_points, epsilon)
           /\ pc' = dbscan.pc
           /\ fit_index' = dbscan.fit_index
           /\ cluster_id' = dbscan.cluster_id
           /\ labels' = dbscan.labels
           /\ queue' = dbscan.queue
           /\ result' = dbscan.result
    /\ UNCHANGED <<kdvars, neighbors, linear, extractvars, colorvars, mathvars>>

NextCalls ==
    \/ \E query \in Queries, k \in 0..(MaxPoints + 1) : Search(query, k)
    \/ \E query \in Queries, radius \in Radii : SearchRadius(query, radius)
    \/ \E min_points \in 0..MaxMinPoints, epsilon \in Radii : FitCall(min_points, epsilon)

SpecCalls == InitKD /\ [][NextCalls]_vars

-----------------------------------------------------------------------------
(* Specification SpecFit: DBSCAN::fit, one step of its loops at a time.     *)

\* DATASET of the test fit_should_fit_dataset (algorithm.rs)
TestDataset ==
    << <<0, 0>>, <<0, 1>>, <<0, 7>>, <<0, 8>>, <<1, 0>>, <<1, 1>>, <<1, 2>>, <<1, 7>>,
       <<1, 8>>, <<2, 1>>, <<2, 2>>, <<4, 3>>, <<4, 4>>, <<4, 5>>, <<5, 3>>, <<5, 4>> >>

\* Two dense groups around <<1,0>> and <<3,0>> that share the border point
\* <<2,0>> (min_points 4, epsilon 1): the second seed finds the border point
\* already Assigned to the first cluster.  <<7,0>> is far from all others.
BorderDataset ==
    << <<0, 0>>, <<0, 0>>, <<1, 0>>, <<2, 0>>, <<3, 0>>, <<4, 0>>, <<4, 0>>, <<7, 0>> >>

\* A point visited first as Outlier that two core points of a later cluster
\* both reach (min_points 4, epsilon 1): it is queued twice.
OutlierDataset == << <<0, 0>>, <<2, 0>>, <<1, 0>>, <<1, 0>>, <<3, 0>> >>

\* Four points on the 1/8 grid (unit SkewUnit) with pairwise different x and
\* pairwise different y, with min_points 3 and the radius StolenRadius (13/64
\* under SquaredEuclidean).  <<3,3>> has all four points within the radius,
\* <<0,1>> and <<1,0>> have three, <<2,5>> has only itself and <<3,3>>.
StolenDataset == << <<0, 1>>, <<2, 5>>, <<3, 3>>, <<1, 0>> >>
StolenRadius == 13

\* What fit is called with: every enumerated dataset (grid step 1/Scale) with
\* every enumerated Params, and the datasets above with the parameters they
\* are made for
FitCase(points, u, min_points, epsilon) ==
    [points |-> points, unit |-> u, params |-> Params(min_points, epsilon)]

FitCases ==
    {FitCase(ds, Scale, min_points, epsilon) :
        ds \in Datasets, min_points \in 0..MaxMinPoints, epsilon \in (-1)..MaxRadius}
    \cup {FitCase(TestDataset, 1, 4, 2),
          FitCase(BorderDataset, 1, 4, 1),
          FitCase(OutlierDataset, 1, 4, 1),
          FitCase(StolenDataset, SkewUnit, 3, StolenRadius),
          FitCase(SkewDataset, SkewUnit, 2, SkewRadius)}

InitFit ==
    /\ \E case \in FitCases :
           dataset = case.points /\ unit = case.unit /\ params = case.params
    /\ distance \in Measures
    /\ tie \in Ties
    /\ root = <<>>
    /\ call = NoCall
    /\ neighbors = <<>>
    /\ linear = <<>>
    /\ pc = "start"
    /\ fit_index = 0
    /\ cluster_id = 0
    /\ labels = <<>>
    /\ queue = <<>>
    /\ result = EmptyDBSCAN
    /\ ExtractIdle
    /\ ColorIdle
    /\ MathIdle

\* The locals of the running fit, and their update
FitNow == FitState(pc, root, fit_index, cluster_id, labels, queue, result)

FitBecomes(st) ==
    /\ pc' = st.pc
    /\ root' = st.root
    /\ fit_index' = st.fit_index
    /\ cluster_id' = st.cluster_id
    /\ labels' = st.labels
    /\ queue' = st.queue
    /\ result' = st.result
    /\ UNCHANGED <<dataset, distance, unit, tie, callvars, params, extractvars, colorvars, mathvars>>

\* fit up to the labelling loop
FitStart ==
    /\ pc = "start"
    /\ FitBecomes(fit_start(dataset, tie, FitNow))

\* One iteration of the labelling loop, up to the call of expand_cluster
FitVisit ==
    /\ pc = "visit"
    /\ fit_index < Len(dataset)
    /\ FitBecomes(fit_visit(dataset, distance, unit, tie, params, FitNow))

\* expand_cluster: one pop of the queue
ExpandStep ==
    /\ pc = "expand"
    /\ queue # <<>>
    /\ FitBecomes(fit_expand(dataset, distance, unit, tie, params, FitNow))

\* expand_cluster returns on the empty queue
ExpandReturn ==
    /\ pc = "expand"
    /\ queue = <<>>
    /\ FitBecomes(fit_expand_return(FitNow))

\* fit after the labelling loop
FitResult ==
    /\ pc = "visit"
    /\ fit_index = Len(dataset)
    /\ FitBecomes(fit_result(dataset, FitNow))

NextFit == FitStart \/ FitVisit \/ ExpandStep \/ ExpandReturn \/ FitResult

SpecFit == InitFit /\ [][NextFit]_vars

\* fit is a sequential call: while it has not returned or panicked it takes
\* its next step.  That is weak fairness of NextFit, WF_vars(NextFit), written
\* out with ENABLED <<NextFit>>_vars replaced by what it is in every state of
\* fit, FitRunning: one of the five actions is enabled at each pc but "done"
\* and "panic", and each changes pc, fit_index, labels or queue.
FitRunning == pc \notin {"done", "panic"}

FitFairness == []<>(~FitRunning) \/ []<><<NextFit>>_vars

FairFit == SpecFit /\ FitFairness

-----------------------------------------------------------------------------
(* Specification SpecExtract: ImageData::extract as one call.               *)

\* side of the enumerated small images: width and height are 0..MaxSide
MaxSide == 2
\* the enumerated small images hold 0..MaxBytes bytes
MaxBytes == 9
\* the strip image is 1 pixel wide and StripHeight high
StripHeight == 500
\* its first StripBlack pixels are black, the others white
StripBlack == 200

BlackPixel == <<0, 0, 0, RgbaMax>>
WhitePixel == <<RgbaMax, RgbaMax, RgbaMax, RgbaMax>>

ImageData(data, width, height) == [data |-> data, width |-> width, height |-> height]

\* `len` bytes of a buffer whose pixels before `black` are black, the others white
Bytes(len, black) ==
    [i \in 1..len |->
        IF (i - 1) \div 4 < black THEN BlackPixel[((i - 1) % 4) + 1]
        ELSE WhitePixel[((i - 1) % 4) + 1]] \o <<>>

SmallImages ==
    {ImageData(Bytes(len, black), width, height) :
        len \in 0..MaxBytes, black \in 0..1, width \in 0..MaxSide, height \in 0..MaxSide}

StripImage == ImageData(Bytes(4 * StripHeight, StripBlack), 1, StripHeight)

\* the gap image is the strip image's size: black but for GapWidth white
\* pixels from pixel StripBlack on, too few to form a cluster
GapWidth == 10

GapBytes ==
    [i \in 1..(4 * StripHeight) |->
        IF (i - 1) \div 4 >= StripBlack /\ (i - 1) \div 4 < StripBlack + GapWidth
        THEN WhitePixel[((i - 1) % 4) + 1]
        ELSE BlackPixel[((i - 1) % 4) + 1]] \o <<>>

GapImage == ImageData(GapBytes, 1, StripHeight)

\* the alpha bytes the images are given
ExtractAlphas == {0, RgbaMax}

\* img with every alpha byte set to alpha
WithAlpha(img, alpha) ==
    ImageData([i \in 1..Len(img.data) |-> IF i % 4 = 0 THEN alpha ELSE img.data[i]] \o <<>>,
              img.width, img.height)

\* the images extract is called on
Images ==
    {WithAlpha(img, alpha) : img \in SmallImages \cup {StripImage}, alpha \in ExtractAlphas}
        \cup {GapImage}

InitExtract ==
    /\ image \in Images
    /\ extract_pc = "start"
    /\ swatches = <<>>
    /\ tie \in Ties
    /\ dataset = <<>>
    /\ distance = "Euclidean"
    /\ unit = 1
    /\ root = <<>>
    /\ call = NoCall
    /\ neighbors = <<>>
    /\ linear = <<>>
    /\ FitIdle
    /\ ColorIdle
    /\ MathIdle

\* extract panics before it calls fit
ExtractPanic ==
    /\ extract_pc = "start"
    /\ BuildPanics(image)
    /\ extract_pc' = "panic"
    /\ UNCHANGED <<kdvars, callvars, fitvars, image, swatches, colorvars, mathvars>>

\* extract: the feature points of the pixels, DBSCAN::fit on them, the
\* swatches of the centroids, sorted; the HashMap may hand out the centroids
\* in any order of its keys
Extract ==
    /\ extract_pc = "start"
    /\ ~BuildPanics(image)
    /\ \E pixels \in {Pixels(image)} :
         \E dbscan \in {DBSCANFit(pixels, "Euclidean", FeatureUnit(image), tie,
                                  Params(ExtractMinPoints, ExtractEpsilon(image)))} :
            /\ dataset' = pixels
            /\ unit' = FeatureUnit(image)
            /\ params' = Params(ExtractMinPoints, ExtractEpsilon(image))
            /\ pc' = dbscan.pc
            /\ root' = dbscan.root
            /\ fit_index' = dbscan.fit_index
            /\ cluster_id' = dbscan.cluster_id
            /\ labels' = dbscan.labels
            /\ queue' = dbscan.queue
            /\ result' = dbscan.result
            /\ IF dbscan.pc = "panic"
               THEN extract_pc' = "panic" /\ UNCHANGED swatches
               ELSE /\ \E order \in Orders(DOMAIN dbscan.result.centroids) :
                           swatches' = SortSwatches(
                               MapSwatches(image, dbscan.result, order, Len(pixels)))
                    /\ extract_pc' = "done"
    /\ UNCHANGED <<distance, tie, callvars, image, colorvars, mathvars>>

NextExtract == ExtractPanic \/ Extract

SpecExtract == InitExtract /\ [][NextExtract]_vars

-----------------------------------------------------------------------------
(* Specification SpecColor: colours are constructed and converted from one  *)
(* colour space to the next; `colors` keeps the chain.                      *)

\* the 8-bit values a constructed Rgba takes per channel, and its alphas
Levels == {0, 10, 11, 128, 254, RgbaMax}
Alphas == {0, 128, RgbaMax}

\* the floats XYZ::new is called with, per component
XYZInputs == {NaN, 0 - Fix \div 2, 0, Fix \div 2, Fix, 2 * Fix}

\* the floats Lab::new is called with, per component
LabInputs == {NaN, 0 - 200 * Fix, 0 - 50 * Fix, 0, 60 * Fix, 200 * Fix}

\* a chain holds at most this many colours
MaxChain == 5

\* one colour of the chain: its space, its components, and the arguments of
\* the call that made it
Color(space, value, args) == [space |-> space, value |-> value, args |-> args]

\* the colour the next conversion reads
Current == colors[Len(colors)]

\* some component of the current colour is NaN
HasNaN == \E i \in 1..Len(Current.value) : Current.value[i] = NaN

\* a conversion from `space` can be called: the chain has a colour of that
\* space to read, no earlier conversion panicked, and the colour is a number
\* in every component
CanConvert(space) ==
    /\ colors # <<>>
    /\ Len(colors) < MaxChain
    /\ color_status = "ok"
    /\ Current.space = space
    /\ ~HasNaN

InitColor ==
    /\ ColorIdle
    /\ MathIdle
    /\ dataset = <<>>
    /\ distance = "Euclidean"
    /\ unit = 1
    /\ tie = "stable"
    /\ root = <<>>
    /\ call = NoCall
    /\ neighbors = <<>>
    /\ linear = <<>>
    /\ FitIdle
    /\ ExtractIdle

\* Rgba::new(r, g, b, a)
RgbaNewCall(r, g, b, a) ==
    /\ colors = <<>>
    /\ colors' = << Color("Rgba", <<r, g, b, a>>, <<r, g, b, a>>) >>
    /\ UNCHANGED <<kdvars, callvars, fitvars, extractvars, color_status, mathvars>>

\* XYZ::new(x, y, z)
XYZNewCall(x, y, z) ==
    /\ colors = <<>>
    /\ colors' = << Color("XYZ", XYZNew(x, y, z), <<x, y, z>>) >>
    /\ UNCHANGED <<kdvars, callvars, fitvars, extractvars, color_status, mathvars>>

\* Lab::new(l, a, b)
LabNewCall(l, a, b) ==
    /\ colors = <<>>
    /\ colors' = << Color("Lab", LabNew(l, a, b), <<l, a, b>>) >>
    /\ UNCHANGED <<kdvars, callvars, fitvars, extractvars, color_status, mathvars>>

\* XYZ::from(&rgba)
XYZFromRgbaCall ==
    /\ CanConvert("Rgba")
    /\ colors' = Append(colors, Color("XYZ", XYZFromRgba(Current.value), Current.value))
    /\ UNCHANGED <<kdvars, callvars, fitvars, extractvars, color_status, mathvars>>

\* Lab::from(&xyz)
LabFromXYZCall ==
    /\ CanConvert("XYZ")
    /\ colors' = Append(colors, Color("Lab", LabFromXYZ(Current.value), Current.value))
    /\ UNCHANGED <<kdvars, callvars, fitvars, extractvars, color_status, mathvars>>

\* XYZ::from(&lab)
XYZFromLabCall ==
    /\ CanConvert("Lab")
    /\ colors' = Append(colors, Color("XYZ", XYZFromLab(Current.value), Current.value))
    /\ UNCHANGED <<kdvars, callvars, fitvars, extractvars, color_status, mathvars>>

\* Rgba::from(&xyz): returns an Rgba or panics in normalize_value
RgbaFromXYZCall ==
    /\ CanConvert("XYZ")
    /\ \E out \in {RgbaFromXYZ(Current.value)} :
           /\ colors' = Append(colors, Color("Rgba", out.value, Current.value))
           /\ color_status' = out.status
    /\ UNCHANGED <<kdvars, callvars, fitvars, extractvars, mathvars>>

NextColor ==
    \/ \E r \in Levels, g \in Levels, b \in Levels, a \in Alphas : RgbaNewCall(r, g, b, a)
    \/ \E x \in XYZInputs, y \in XYZInputs, z \in XYZInputs : XYZNewCall(x, y, z)
    \/ \E l \in LabInputs, a \in LabInputs, b \in LabInputs : LabNewCall(l, a, b)
    \/ XYZFromRgbaCall
    \/ LabFromXYZCall
    \/ XYZFromLabCall
    \/ RgbaFromXYZCall

SpecColor == InitColor /\ [][NextColor]_vars

-----------------------------------------------------------------------------
(* Claims about DBSCAN::fit (SpecFit) *)

AllIndices == 0..(Len(dataset) - 1)

\* the preconditions the claims put on fit's input
ValidFitInput == dataset # <<>> /\ params.min_points >= 1 /\ params.epsilon >= 0

\* the epsilon-neighbourhood of dataset index i, by definition
EpsNeighbourhood(i) ==
    {j \in AllIndices :
        DistLeq(Measure(distance, dataset[j + 1], dataset[i + 1]), params.epsilon)}

IsCorePoint(i) == Cardinality(EpsNeighbourhood(i)) >= params.min_points

MembersOf(c) == {i \in AllIndices : labels[i] = Assigned(c)}

\* places where index i occurs in the result
Places(i) ==
    UNION {{<<"member", c, p>> : p \in {q \in 1..Len(result.membership[c]) :
                                            result.membership[c][q] = i}} :
           c \in DOMAIN result.membership}
    \cup {<<"outlier", 0, p>> : p \in {q \in 1..Len(result.outliers) : result.outliers[q] = i}}

\* C1: after fit on a non-empty dataset with min_points >= 1 and
\* epsilon >= 0, every dataset index occurs in exactly one place: once in
\* the membership list of exactly one cluster, or once in the outlier list;
\* and the lists hold dataset indices only.
C1_Partition ==
    (pc = "done" /\ ValidFitInput) =>
        /\ \A i \in AllIndices : Cardinality(Places(i)) = 1
        /\ \A c \in DOMAIN result.membership :
               \A p \in 1..Len(result.membership[c]) : result.membership[c][p] \in AllIndices
        /\ \A p \in 1..Len(result.outliers) : result.outliers[p] \in AllIndices

C1_Witness ==
    /\ pc = "done" /\ ValidFitInput
    /\ Cardinality(DOMAIN result.membership) >= 2
    /\ result.outliers # <<>>

RECURSIVE SetSum(_, _)
SetSum(S, a) ==
    IF S = {} THEN 0
    ELSE LET i == CHOOSE j \in S : TRUE
         IN dataset[i + 1][a] + SetSum(S \ {i}, a)

\* C6: for every cluster id c of the result, the centroid stored for c is
\* the arithmetic mean of exactly the points whose final label is
\* Assigned(c), count_at(c) is their number, and the divisor is not zero.
C6_CentroidIsMean ==
    (pc = "done" /\ ValidFitInput) =>
        /\ DOMAIN result.centroids = AssignedIds(labels)
        /\ \A c \in DOMAIN result.centroids :
               /\ result.centroids[c].den # 0
               /\ result.centroids[c].den = Cardinality(MembersOf(c))
               /\ \A a \in 1..Dim(dataset) :
                      result.centroids[c].num[a] = SetSum(MembersOf(c), a)
               /\ count_at(result, c) = Cardinality(MembersOf(c))

C6_Witness ==
    /\ pc = "done" /\ ValidFitInput
    /\ \E c \in DOMAIN result.centroids :
           /\ result.centroids[c].den >= 3
           /\ \E a \in 1..Dim(dataset) :
                  result.centroids[c].num[a] % result.centroids[c].den # 0

\* C7: after fit, every point whose final label is Assigned(c) has within
\* epsilon of itself (itself included) a core point whose final label is
\* Assigned(c) too.
C7_MemberNearCore ==
    (pc = "done" /\ ValidFitInput) =>
        \A i \in AllIndices :
            is_assigned(labels[i]) =>
                \E j \in EpsNeighbourhood(i) : IsCorePoint(j) /\ labels[j] = labels[i]

\* C8: on a non-empty dataset with min_points >= 1 and epsilon >= 0 the
\* result loop never reaches unreachable!(): whenever the labelling loop is
\* between two expansions or over, no label is Marked, and when it is over
\* every label is Assigned or Outlier.
C8_NoMarkedLeft ==
    ValidFitInput =>
        /\ pc # "panic"
        /\ pc \in {"visit", "done"} => \A i \in AllIndices : labels[i] # Marked
        /\ (pc = "done" \/ (pc = "visit" /\ fit_index = Len(dataset))) =>
               \A i \in AllIndices : is_assigned(labels[i]) \/ is_outlier(labels[i])

C8_Witness ==
    /\ ValidFitInput
    /\ pc = "expand"
    /\ \E i \in AllIndices : labels[i] = Marked /\ i \notin EpsNeighbourhood(fit_index)

CoresOf(c) == {i \in MembersOf(c) : IsCorePoint(i)}
MinOf(S) == CHOOSE x \in S : \A y \in S : x <= y

\* C9: the cluster ids of a result are exactly 0..K-1 (every allocated id
\* keeps a member), in discovery order: the smallest-indexed core point of
\* cluster c comes before that of cluster c+1, and cluster 0 holds the
\* smallest-indexed core point of the dataset.
C9_DenseDiscoveryOrder ==
    (pc = "done" /\ ValidFitInput) =>
        LET ids == DOMAIN result.membership
            K == Cardinality(ids)
            cores == {i \in AllIndices : IsCorePoint(i)}
        IN /\ ids = 0..(K - 1)
           /\ K = cluster_id
           /\ \A c \in ids : CoresOf(c) # {}
           /\ \A c \in ids : (c + 1) \in ids => MinOf(CoresOf(c)) < MinOf(CoresOf(c + 1))
           /\ cores # {} => labels[MinOf(cores)] = Assigned(0)

\* C11: on a non-empty dataset, fit with min_points = 0 or with epsilon < 0
\* ends in a fatal error: it returns no result.
C11_RejectsInvalidParams ==
    (dataset # <<>> /\ (params.min_points = 0 \/ params.epsilon < 0)) => pc # "done"

\* C13: the result of fit on a dataset and parameters does not depend on how
\* ties between equal coordinates or equal distances are broken: under every
\* order of equal keys fit returns the same membership lists and the same
\* outlier list.
C13_SameUnderEveryTie ==
    pc = "done" =>
        \A t \in Ties :
            LET other == DBSCANFit(dataset, distance, unit, t, params)
            IN /\ other.pc = "done"
               /\ other.result.membership = result.membership
               /\ other.result.outliers = result.outliers

-----------------------------------------------------------------------------
(* Claims about the neighbour searches (SpecKD) *)

Indices(nbs) == {nbs[i].index : i \in 1..Len(nbs)}
Distances(nbs) == [i \in 1..Len(nbs) |-> nbs[i].distance]

\* C4: KDTree::search(query, k) returns the same neighbours as
\* LinearSearch::search(query, k): the k smallest distances to the query, in
\* ascending order (only the choice among equidistant points may differ).
C4_KnnEqualsLinear ==
    (call.op = "search" /\ call.k >= 1) => Distances(neighbors) = Distances(linear)

\* C5: for either measure and every radius >= 0, KDTree::search_radius
\* returns exactly the indices {i : measure(dataset[i], query) <= radius},
\* the set LinearSearch::search_radius returns.
C5_RadiusEqualsLinear ==
    (call.op = "search_radius" /\ call.radius >= 0) =>
        /\ Indices(neighbors) = {i \in 0..(Len(dataset) - 1) :
                                    DistLeq(Measure(distance, dataset[i + 1], call.query), call.radius)}
        /\ Indices(neighbors) = Indices(linear)

\* C14: KDTree::search(query, k) on a dataset of N points returns exactly
\* min(k, N) neighbours with pairwise distinct indices, in non-decreasing
\* order of distance, each with the distance of its point to the query.
C14_SearchShape ==
    call.op = "search" =>
        /\ Len(neighbors) = (IF call.k < Len(dataset) THEN call.k ELSE Len(dataset))
        /\ \A i, j \in 1..Len(neighbors) :
               i # j => neighbors[i].index # neighbors[j].index
        /\ \A i \in 1..(Len(neighbors) - 1) :
               neighbors[i].distance <= neighbors[i + 1].distance
        /\ \A i \in 1..Len(neighbors) :
               /\ neighbors[i].index \in 0..(Len(dataset) - 1)
               /\ neighbors[i].distance =
                      Measure(distance, dataset[neighbors[i].index + 1], call.query)

C14_Witness ==
    /\ call.op = "search"
    /\ call.k >= 2
    /\ call.k < Len(dataset)
    /\ Len(neighbors) = call.k
    /\ neighbors[1].distance < neighbors[2].distance

\* C15: degenerate inputs give empty results: on an empty dataset fit
\* returns no cluster and no outlier and both searches of the tree return an
\* empty list; on any dataset search with k = 0 and search_radius with a
\* negative radius return an empty list.
C15_DegenerateIsEmpty ==
    /\ (call.op = "fit" /\ dataset = <<>>) =>
           /\ pc = "done"
           /\ result.centroids = EmptyMap
           /\ result.membership = EmptyMap
           /\ result.outliers = <<>>
    /\ (call.op \in {"search", "search_radius"} /\ dataset = <<>>) => neighbors = <<>>
    /\ (call.op = "search" /\ call.k = 0) => neighbors = <<>>
    /\ (call.op = "search_radius" /\ call.radius < 0) => neighbors = <<>>

C15_Witness ==
    /\ call.op = "search"
    /\ call.k = 0
    /\ Len(dataset) >= 2
    /\ neighbors = <<>>

-----------------------------------------------------------------------------
(* Claims about ImageData::extract (SpecExtract) *)

\* C2: the swatch list extract returns is sorted by percentage in descending
\* order: of two consecutive swatches the earlier one's percentage is
\* greater than or equal to the later one's.
C2_SortedDescending ==
    extract_pc = "done" =>
        \A i \in 1..(Len(swatches) - 1) :
            swatches[i].percentage.num * swatches[i + 1].percentage.den
                >= swatches[i + 1].percentage.num * swatches[i].percentage.den

\* the cluster ids whose centroid gives the colour and the position of swatch sw
ProducedBy(sw) ==
    {c \in DOMAIN result.centroids :
        LET made == SwatchOf(image, result.centroids[c], 0, 1)
        IN made.color = sw.color /\ made.position = sw.position}

\* C3: the percentage of every swatch extract returns is (number of members
\* of the cluster whose centroid produced the swatch's colour and
\* position) / (number of pixels), whatever order the centroid map is
\* iterated in.
C3_PercentageOfOwnCluster ==
    extract_pc = "done" =>
        \A i \in 1..Len(swatches) :
            \A c \in ProducedBy(swatches[i]) :
                swatches[i].percentage =
                    [num |-> Len(result.membership[c]), den |-> Len(image.data) \div 4]

\* C10: extract returns no swatch list when the byte buffer's length differs
\* from 4 * width * height, or width is zero, or height is zero.
C10_FailsOnBadDimensions ==
    (\/ Len(image.data) # 4 * image.width * image.height
     \/ image.width = 0
     \/ image.height = 0) => extract_pc # "done"

RECURSIVE SumOfCounts(_)
SumOfCounts(sw) ==
    IF sw = <<>> THEN 0 ELSE sw[1].percentage.num + SumOfCounts(Tail(sw))

\* C12: in every swatch list extract returns each percentage lies in [0, 1]
\* and the percentages add up to the fraction of the pixels that are not
\* outliers (at most 1), whatever order the centroid map is iterated in.
C12_PercentagesWithinOne ==
    extract_pc = "done" =>
        /\ \A i \in 1..Len(swatches) :
               /\ swatches[i].percentage.den = Len(dataset)
               /\ swatches[i].percentage.den > 0
               /\ swatches[i].percentage.num >= 0
               /\ swatches[i].percentage.num <= swatches[i].percentage.den
        /\ SumOfCounts(swatches) = Len(dataset) - Len(result.outliers)
        /\ SumOfCounts(swatches) <= Len(dataset)

C12_Witness ==
    /\ extract_pc = "done"
    /\ Len(swatches) >= 2
    /\ result.outliers # <<>>
    /\ swatches[1].percentage.num # swatches[2].percentage.num

-----------------------------------------------------------------------------
(* Claims about the colour conversions (SpecColor) *)

\* the spaces of the first n colours of the chain
Spaces(n) == [i \in 1..n |-> colors[i].space]

\* C16: converting an XYZ colour inside the D65 clamp box to sRGB never
\* fails: Rgba::from(&XYZ) returns a colour, every channel within 0..255
\* (a channel that rounds below 0 or above 255 is clamped, not rejected).
C16_NeverFails ==
    (Len(colors) >= 2 /\ Current.space = "Rgba")
        => /\ color_status = "ok"
           /\ \A i \in 1..3 : Current.value[i] \in 0..RgbaMax

\* C17: alpha is preserved through conversions: an Rgba colour converted to
\* XYZ and back to Rgba has the alpha it started with.
C17_AlphaPreserved ==
    (Len(colors) >= 3 /\ Spaces(3) = <<"Rgba", "XYZ", "Rgba">> /\ color_status = "ok")
        => colors[3].value[4] = colors[1].value[4]

\* value lies in [min, max], as floats compare
InRange(value, min, max) == ~FloatLt(value, min) /\ ~FloatGt(value, max) /\ value # NaN

\* value is what clamping arg to [min, max] gives: arg itself inside the
\* range, the nearest bound outside it
ClampedTo(value, arg, min, max) ==
    /\ InRange(value, min, max)
    /\ InRange(arg, min, max) => value = arg
    /\ FloatLt(arg, min) => value = min
    /\ FloatGt(arg, max) => value = max

\* C19: the colour constructors clamp, for every input: Lab::new yields l in
\* [0,100] and a, b in [-128,127], XYZ::new yields x in [0,0.950456], y in
\* [0,1], z in [0,1.088644]; a component inside its range is stored
\* unchanged, one outside is replaced by the nearest bound.
C19_ConstructorsClamp ==
    /\ (Len(colors) = 1 /\ Current.space = "Lab")
           => \A i \in 1..3 : ClampedTo(Current.value[i], Current.args[i], LabMin[i], LabMax[i])
    /\ (Len(colors) = 1 /\ Current.space = "XYZ")
           => \A i \in 1..3 : ClampedTo(Current.value[i], Current.args[i], XYZMin[i], XYZMax[i])

\* black, white and the three pure primaries
Recovered ==
    { <<0, 0, 0>>, <<RgbaMax, RgbaMax, RgbaMax>>, <<RgbaMax, 0, 0>>, <<0, RgbaMax, 0>>,
      <<0, 0, RgbaMax>> }

\* the r, g, b of an Rgba
Rgb(rgba) == <<rgba[1], rgba[2], rgba[3]>>

\* the chain starts with the round trip sRGB -> XYZ -> L*a*b* -> XYZ -> sRGB
IsRoundTrip ==
    Len(colors) >= 5 /\ Spaces(5) = <<"Rgba", "XYZ", "Lab", "XYZ", "Rgba">>

\* C20: the round trip sRGB -> XYZ -> L*a*b* -> XYZ -> sRGB returns channels
\* that each differ from the original by at most 1; black, white and the
\* three pure primaries are recovered.
C20_RoundTripWithinOne ==
    IsRoundTrip
        => /\ color_status = "ok"
           /\ \A i \in 1..3 : Abs(colors[5].value[i] - colors[1].value[i]) <= 1
           /\ Rgb(colors[1].value) \in Recovered
                  => Rgb(colors[5].value) = Rgb(colors[1].value)

\* a round trip of a colour of three different channels, none of them 0 or
\* 255, through a Lab colour off the grey axis, has ended
C20_Witness ==
    /\ IsRoundTrip
    /\ color_status = "ok"
    /\ Cardinality({colors[1].value[i] : i \in 1..3}) = 3
    /\ \A i \in 1..3 : colors[1].value[i] \notin {0, RgbaMax}
    /\ colors[3].value[2] # 0
    /\ colors[3].value[3] # 0

-----------------------------------------------------------------------------
(* Claims about alpha in ImageData::extract (SpecExtract) *)

\* the clusters DBSCAN::fit finds on the pixels of img
ClustersOf(img) ==
    DBSCANFit(Pixels(img), "Euclidean", FeatureUnit(img), tie,
              Params(ExtractMinPoints, ExtractEpsilon(img))).result

\* the swatch lists extract can return for img once fit has returned db, one
\* for each order the HashMap may hand out its keys in
SwatchesOf(img, db) ==
    {SortSwatches(MapSwatches(img, db, order, Len(img.data) \div 4)) :
        order \in Orders(DOMAIN db.centroids)}

\* the buffers that differ from img's in their alpha bytes only
AlphaVariants(img) == {WithAlpha(img, alpha) : alpha \in ExtractAlphas} \ {img}

\* C18: alpha does not influence clustering: a buffer that differs from the
\* extracted one only in its alpha bytes gives the same 5-D feature dataset,
\* the same DBSCAN clusters and the same swatches (extract on it can return
\* the very swatches that were returned).
C18_AlphaIgnored ==
    extract_pc = "done"
        => \A other \in AlphaVariants(image) :
               /\ Pixels(other) = dataset
               /\ ClustersOf(other) = result
               /\ swatches \in SwatchesOf(other, result)

\* a fully transparent image with a black and a white cluster has been
\* extracted
C18_Witness ==
    /\ extract_pc = "done"
    /\ Len(image.data) >= 4
    /\ \A i \in 1..Len(image.data) : i % 4 = 0 => image.data[i] = 0
    /\ Len(swatches) = 2

-----------------------------------------------------------------------------
(* Claims about the labels while DBSCAN::fit runs (SpecFit) *)

\* the indices that carry a label before and after a step
Labelled == DOMAIN labels \cap DOMAIN labels'

\* C21: label transitions are one-way during fit: a label that is
\* Assigned(k) is never overwritten again, and a label that is Outlier only
\* ever changes to Assigned.
C21_OneWayLabels ==
    [][\A i \in Labelled :
           /\ is_assigned(labels[i]) => labels'[i] = labels[i]
           /\ is_outlier(labels[i]) => (is_outlier(labels'[i]) \/ is_assigned(labels'[i]))]_vars

\* C22: every index in the outlier list fit returns is a true outlier: its
\* epsilon-neighbourhood holds fewer than min_points points and contains no
\* core point.
C22_OutliersAreNoise ==
    (pc = "done" /\ ValidFitInput) =>
        \A p \in 1..Len(result.outliers) :
            /\ ~IsCorePoint(result.outliers[p])
            /\ \A j \in EpsNeighbourhood(result.outliers[p]) : ~IsCorePoint(j)

\* C23: clusters are closed under density-reachability: after fit, any two
\* core points within epsilon of each other carry the same cluster id, and
\* while fit runs a core point is never moved from the cluster that first
\* assigned it.
C23_CoresStayTogether ==
    /\ [](( pc = "done" /\ ValidFitInput) =>
             \A i \in AllIndices : \A j \in EpsNeighbourhood(i) :
                 (IsCorePoint(i) /\ IsCorePoint(j)) =>
                     (is_assigned(labels[i]) /\ labels[j] = labels[i]))
    /\ [][ValidFitInput =>
             \A i \in Labelled :
                 (IsCorePoint(i) /\ is_assigned(labels[i])) => labels'[i] = labels[i]]_vars

\* the indices one pop of expand_cluster pushes to the back of the queue
PushedNow == SubSeq(queue', Len(queue), Len(queue'))

\* C26: fit terminates on every finite dataset: each expansion queue becomes
\* empty in the end, because a point is enqueued only while its label is
\* Undefined or Outlier, an Undefined point is set to Marked when it is
\* enqueued, so it is enqueued at most once, and a label that has left
\* Undefined and Outlier never returns to them.
C26_FitTerminates ==
    /\ <>(pc \in {"done", "panic"})
    /\ [](pc = "expand" => <>(pc = "expand" /\ queue = <<>>))
    /\ [][(pc = "expand" /\ pc' = "expand") =>
             \A p \in 1..Len(PushedNow) :
                 /\ is_undefined(labels[PushedNow[p]]) \/ is_outlier(labels[PushedNow[p]])
                 /\ is_undefined(labels[PushedNow[p]]) =>
                        /\ labels'[PushedNow[p]] = Marked
                        /\ \A q \in 1..Len(queue) : queue[q] # PushedNow[p]
                        /\ \A q \in 1..Len(PushedNow) : PushedNow[q] = PushedNow[p] => q = p]_vars
    /\ [][\A i \in Labelled :
             (is_undefined(labels'[i]) \/ is_outlier(labels'[i])) =>
                 (is_undefined(labels[i]) \/ is_outlier(labels[i]))]_vars

\* an expansion has pushed an Undefined neighbour to a queue that still held
\* other indices
C26_Witness ==
    /\ pc = "expand"
    /\ Len(queue) >= 2
    /\ \E i \in AllIndices : labels[i] = Marked /\ i \notin EpsNeighbourhood(fit_index)
    /\ queue[Len(queue)] \notin EpsNeighbourhood(fit_index)

-----------------------------------------------------------------------------
(* Claims about the k-d tree's heap and shape (SpecKD) *)

\* the heap search_recursively has filled when the search of the last call
\* returns
SearchHeap == search_recursively(dataset, distance, unit, root, call.query, call.k, <<>>)

\* C24: during KDTree::search(query, k) the candidate heap never holds more
\* than k entries, and the bound compared with |delta| for the far subtree
\* is the largest distance among the candidates it holds.
C24_HeapHoldsKBest ==
    (call.op = "search" /\ call.k >= 1 /\ dataset # <<>>) =>
        /\ Len(SearchHeap) <= call.k
        /\ \A i \in 1..Len(SearchHeap) : SearchHeap[i].distance <= PruneBound(SearchHeap)

\* the indices of the nodes of a subtree, left subtree first
RECURSIVE TreeIndices(_)
TreeIndices(node_opt) ==
    IF node_opt = <<>> THEN <<>>
    ELSE TreeIndices(node_opt[1].left) \o <<node_opt[1].index>> \o TreeIndices(node_opt[1].right)

\* the coordinate of dataset index i on an axis
Coordinate(i, axis) == dataset[i + 1][axis + 1]

\* every node of the subtree splits on the axis of its depth, has the
\* smaller-or-equal coordinates to its left and the greater-or-equal ones to
\* its right, and floor(n/2) of its n indices in its left subtree
RECURSIVE SplitsAtMedian(_, _)
SplitsAtMedian(node_opt, depth) ==
    \/ node_opt = <<>>
    \/ LET node == node_opt[1]
           lefts == TreeIndices(node.left)
           rights == TreeIndices(node.right)
       IN /\ node.axis = depth % Dim(dataset)
          /\ \A p \in 1..Len(lefts) :
                 Coordinate(lefts[p], node.axis) <= Coordinate(node.index, node.axis)
          /\ \A p \in 1..Len(rights) :
                 Coordinate(rights[p], node.axis) >= Coordinate(node.index, node.axis)
          /\ Len(lefts) = (Len(lefts) + 1 + Len(rights)) \div 2
          /\ SplitsAtMedian(node.left, depth + 1)
          /\ SplitsAtMedian(node.right, depth + 1)

\* C25: the tree KDTree::new builds over N points of dimension d holds every
\* dataset index 0..N-1 in exactly one node; a node at depth t splits on axis
\* t mod d, with coordinates <= its own to the left and >= its own to the
\* right, and floor(n/2) of the n indices of its subtree in its left subtree.
C25_TreeShape ==
    /\ Len(TreeIndices(root)) = Len(dataset)
    /\ {TreeIndices(root)[p] : p \in 1..Len(TreeIndices(root))} = 0..(Len(dataset) - 1)
    /\ SplitsAtMedian(root, 0)

\* a tree of three levels over points that do not come sorted: the root's
\* left child has a child of its own, and the first index is not leftmost
C25_Witness ==
    /\ root # <<>>
    /\ root[1].left # <<>>
    /\ root[1].right # <<>>
    /\ root[1].left[1].left # <<>>
    /\ TreeIndices(root)[1] # 0

-----------------------------------------------------------------------------
(* Specification SpecMST: MinimumSpanningTree::build, one step per loop     *)
(* iteration.  Weights are integers; the weight function is a matrix.       *)

\* the enumerated graphs have 0..MaxVertices vertices
MaxVertices == 4
\* and weights 1..MaxWeight
MaxWeight == 3

\* WeightedEdge::new
WeightedEdge(u, v, weight) == [u |-> u, v |-> v, weight |-> weight]

\* vertices.len()
NVertices(w) == Len(w)

\* weight_fn(u, v)
WeightOf(w, u, v) == w[u + 1][v + 1]

Symmetric(w) ==
    \A u \in 0..(NVertices(w) - 1) : \A v \in 0..(NVertices(w) - 1) :
        WeightOf(w, u, v) = WeightOf(w, v, u)

\* the unordered pairs of n vertices, each as <<u, v>> with u < v
Pairs(n) == {pr \in (0..(n - 1)) \X (0..(n - 1)) : pr[1] < pr[2]}

\* the symmetric matrix that gives the pair <<u, v>> the weight f[<<u, v>>]
\* (the diagonal, which build never asks for, is 0)
MatrixOf(n, f) ==
    [u \in 1..n |-> [v \in 1..n |->
        IF u = v THEN 0 ELSE IF u < v THEN f[<<u - 1, v - 1>>] ELSE f[<<v - 1, u - 1>>]]]

\* incidence_matrix of the test of spanning_tree.rs, with f64::MAX as 99
TestMatrix ==
    << <<99, 1, 4, 3>>,
       <<1, 99, 7, 2>>,
       <<4, 9, 99, 5>>,
       <<3, 2, 5, 99>> >>

WeightFns ==
    UNION {{MatrixOf(n, f) : f \in [Pairs(n) -> 1..MaxWeight]} : n \in 0..MaxVertices}
    \cup {TestMatrix}

\* A variant of the heap's order in which any edge may be the greatest
AnyEdge(heap) == heap

\* impl Ord for WeightedEdge (the reverse of the weights' order): the edges
\* BinaryHeap::pop may return are those of the least weight; which of several
\* equal ones it returns is not specified
Greatest(heap) == {edge \in heap : \A other \in heap : edge.weight <= other.weight}

\* build is called with one of the weight functions `fns`
InitGraph(fns) ==
    /\ weight_fn \in fns
    /\ graph_pc = "start"
    /\ attached = {}
    /\ candidates = {}
    /\ total_weight = 0
    /\ current_vertex = 0
    /\ edges = <<>>
    /\ spanning_tree = MinimumSpanningTree(0, <<>>)
    /\ dataset = <<>> /\ distance = "Euclidean" /\ unit = 1 /\ tie = "stable" /\ root = <<>>
    /\ call = NoCall /\ neighbors = <<>> /\ linear = <<>>
    /\ FitIdle
    /\ ExtractIdle
    /\ ColorIdle
    /\ UnionFindIdle

InitMST == InitGraph(WeightFns) /\ HierIdle /\ InitializerIdle

\* build up to the first test of `while attached.len() < n_vertices`
BuildStart ==
    /\ graph_pc = "start"
    /\ IF weight_fn = <<>>
       THEN /\ graph_pc' = "done"
            /\ spanning_tree' = MinimumSpanningTree(0, <<>>)
            /\ UNCHANGED <<attached, candidates, total_weight, current_vertex, edges>>
       ELSE /\ graph_pc' = "push"
            /\ current_vertex' = NVertices(weight_fn) - 1
            /\ attached' = {NVertices(weight_fn) - 1}
            /\ candidates' = {}
            /\ total_weight' = 0
            /\ edges' = <<>>
            /\ UNCHANGED spanning_tree
    /\ UNCHANGED <<weight_fn, kdvars, callvars, fitvars, extractvars, colorvars, ufvars, hiervars, initvars>>

\* The test of the outer loop and its `for index in 0..n_vertices`: the edges
\* from current_index to every vertex not attached go on the heap (an edge
\* <<u, v>> is pushed at most once, so the heap is a set); build returns once
\* every vertex is attached
BuildPush ==
    /\ graph_pc = "push"
    /\ IF Cardinality(attached) < NVertices(weight_fn)
       THEN /\ candidates' = candidates \cup
                    {WeightedEdge(current_vertex, index, WeightOf(weight_fn, current_vertex, index)) :
                        index \in (0..(NVertices(weight_fn) - 1)) \ (attached \cup {current_vertex})}
            /\ graph_pc' = "pop"
            /\ UNCHANGED spanning_tree
       ELSE /\ graph_pc' = "done"
            /\ spanning_tree' = MinimumSpanningTree(total_weight, edges)
            /\ UNCHANGED candidates
    /\ UNCHANGED <<weight_fn, attached, total_weight, current_vertex, edges>>
    /\ UNCHANGED <<kdvars, callvars, fitvars, extractvars, colorvars, ufvars, hiervars, initvars>>

\* One `candidates.pop()` of the inner loop
BuildPop ==
    /\ graph_pc = "pop"
    /\ IF candidates = {}
       THEN /\ graph_pc' = "push"
            /\ UNCHANGED <<attached, candidates, total_weight, current_vertex, edges>>
       ELSE \E edge \in Greatest(candidates) :
                /\ candidates' = candidates \ {edge}
                /\ IF edge.v \notin attached
                   THEN /\ current_vertex' = edge.v
                        /\ total_weight' = total_weight + edge.weight
                        /\ edges' = Append(edges, edge)
                        /\ attached' = attached \cup {edge.v}
                        /\ graph_pc' = "push"
                   ELSE /\ graph_pc' = "pop"
                        /\ UNCHANGED <<attached, total_weight, current_vertex, edges>>
    /\ UNCHANGED <<weight_fn, spanning_tree>>
    /\ UNCHANGED <<kdvars, callvars, fitvars, extractvars, colorvars, ufvars, hiervars, initvars>>

NextMST == BuildStart \/ BuildPush \/ BuildPop

SpecMST == InitMST /\ [][NextMST]_vars

\* build is a sequential call: while it has not returned it takes its next step
FairMST == SpecMST /\ WF_vars(NextMST)

-----------------------------------------------------------------------------
(* Specification SpecUF: a UnionFind under calls of union on the current    *)
(* roots of two different sets and of find on any node; find runs one step  *)
(* per loop iteration.                                                      *)

\* UnionFind::new is called with 1..MaxElements
MaxElements == 4

\* UnionFind::new
UnionFindNew(n) ==
    UnionFind([i \in 1..(2 * n) |-> i - 1],
              [i \in 1..(2 * n) |-> IF i - 1 < n THEN 1 ELSE 0],
              n)

\* the n UnionFind::new was called with
NElements(uf) == Len(uf.parent) \div 2

\* the allocated nodes that are their own parent
Roots(uf) == {x \in 0..(uf.next_label - 1) : uf.parent[x + 1] = x}

\* A variant of union's two assignments that leaves out the second
UnionFirstParent(parent, x, y, label) == [parent EXCEPT ![x + 1] = label]

\* union: self.parent[x] = self.next_label; self.parent[y] = self.next_label
UnionParents(parent, x, y, label) == [parent EXCEPT ![x + 1] = label, ![y + 1] = label]

\* union: the UnionFind afterwards
UnionOf(uf, x, y) ==
    UnionFind(UnionParents(uf.parent, x, y, uf.next_label),
              [uf.size EXCEPT ![uf.next_label + 1] = uf.size[x + 1] + uf.size[y + 1]],
              uf.next_label + 1)

InitUF ==
    /\ \E n \in 1..MaxElements : union_find = UnionFindNew(n)
    /\ uf_pc = "idle"
    /\ find_x = 0
    /\ find_root = 0
    /\ find_parenet = 0
    /\ uf_return = NoReturn
    /\ n_unions = 0
    /\ dataset = <<>> /\ distance = "Euclidean" /\ unit = 1 /\ tie = "stable" /\ root = <<>>
    /\ call = NoCall /\ neighbors = <<>> /\ linear = <<>>
    /\ FitIdle
    /\ ExtractIdle
    /\ ColorIdle
    /\ GraphIdle
    /\ HierIdle
    /\ InitializerIdle

\* union(x, y) on two different current roots
Union ==
    /\ uf_pc = "idle"
    /\ \E x \in Roots(union_find) : \E y \in Roots(union_find) \ {x} :
           /\ union_find' = UnionOf(union_find, x, y)
           /\ uf_return' = [op |-> "union", value |-> union_find.size[x + 1] + union_find.size[y + 1]]
    /\ n_unions' = n_unions + 1
    /\ UNCHANGED <<uf_pc, find_x, find_root, find_parenet>>
    /\ UNCHANGED <<kdvars, callvars, fitvars, extractvars, colorvars, graphvars, hiervars, initvars>>

\* find(x) is called: let mut root = x; let mut parenet = x
FindCall ==
    /\ uf_pc = "idle"
    /\ \E x \in 0..(Len(union_find.parent) - 1) :
           find_x' = x /\ find_root' = x /\ find_parenet' = x
    /\ uf_pc' = "climb"
    /\ UNCHANGED <<union_find, uf_return, n_unions>>
    /\ UNCHANGED <<kdvars, callvars, fitvars, extractvars, colorvars, graphvars, hiervars, initvars>>

\* One test of `while self.parent[root] != root`, and its body
FindClimb ==
    /\ uf_pc = "climb"
    /\ IF union_find.parent[find_root + 1] # find_root
       THEN find_root' = union_find.parent[find_root + 1] /\ UNCHANGED uf_pc
       ELSE uf_pc' = "compress" /\ UNCHANGED find_root
    /\ UNCHANGED <<union_find, find_x, find_parenet, uf_return, n_unions>>
    /\ UNCHANGED <<kdvars, callvars, fitvars, extractvars, colorvars, graphvars, hiervars, initvars>>

\* One test of `while self.parent[parenet] != root`, and its body; find
\* returns root when the test fails
FindCompress ==
    /\ uf_pc = "compress"
    /\ IF union_find.parent[find_parenet + 1] # find_root
       THEN /\ find_parenet' = union_find.parent[find_parenet + 1]
            /\ union_find' =
                   [union_find EXCEPT !.parent[union_find.parent[find_parenet + 1] + 1] = find_root]
            /\ UNCHANGED <<uf_pc, uf_return>>
       ELSE /\ uf_pc' = "idle"
            /\ uf_return' = [op |-> "find", value |-> find_root]
            /\ UNCHANGED <<union_find, find_parenet>>
    /\ UNCHANGED <<find_x, find_root, n_unions>>
    /\ UNCHANGED <<kdvars, callvars, fitvars, extractvars, colorvars, graphvars, hiervars, initvars>>

NextUF == Union \/ FindCall \/ FindClimb \/ FindCompress

SpecUF == InitUF /\ [][NextUF]_vars

\* a find that was called runs on: its two loops take their next step
FairUF == SpecUF /\ WF_vars(FindClimb) /\ WF_vars(FindCompress)

-----------------------------------------------------------------------------
(* Specification SpecHier: HierarchicalClustering::fit (the steps of build, *)
(* then the rest of fit as one step) and one call of partition, one step    *)
(* per loop iteration.                                                      *)

\* struct Node of hierarchical/node.rs
HierNode(left, right, weight, size) == [left |-> left, right |-> right, weight |-> weight, size |-> size]

\* find, first loop: the root of x
RECURSIVE FindRoot(_, _)
FindRoot(parent, r) == IF parent[r + 1] # r THEN FindRoot(parent, parent[r + 1]) ELSE r

\* find, second loop: the parents afterwards
RECURSIVE FindCompressed(_, _, _)
FindCompressed(parent, parenet, r) ==
    IF parent[parenet + 1] # r
    THEN FindCompressed([parent EXCEPT ![parent[parenet + 1] + 1] = r], parent[parenet + 1], r)
    ELSE parent

\* find as one call: the UnionFind afterwards
FindIn(uf, x) == [uf EXCEPT !.parent = FindCompressed(uf.parent, x, FindRoot(uf.parent, x))]

\* the orders edges.sort_unstable_by may leave the edges in: every one in
\* which the weights do not decrease
SortedOrders(es) ==
    IF es = <<>> THEN {<<>>}
    ELSE {sorted \in {[i \in 1..Len(es) |-> es[order[i]]] : order \in Permutations(1..Len(es))} :
             \A i \in 1..(Len(es) - 1) : sorted[i].weight <= sorted[i + 1].weight}

\* fit: the closure mapped over the sorted edges, from edge i on
RECURSIVE FitNodes(_, _, _, _)
FitNodes(uf, es, i, nodes) ==
    IF i > Len(es) THEN nodes
    ELSE LET root_u == FindRoot(uf.parent, es[i].u)
             uf1 == FindIn(uf, es[i].u)
             root_v == FindRoot(uf1.parent, es[i].v)
             uf2 == FindIn(uf1, es[i].v)
             size == uf2.size[root_u + 1] + uf2.size[root_v + 1]
         IN FitNodes(UnionOf(uf2, root_u, root_v), es, i + 1,
                     Append(nodes, HierNode(root_u, root_v, es[i].weight, size)))

\* A variant of the heap that hands its ids back in the order they came
HeapPushBack(ids, id) == Append(ids, id)

\* BinaryHeap::push; the heap is kept as the sequence of its ids, greatest first
HeapPush(ids, id) ==
    LET Greater(x) == x > id
        NotGreater(x) == x <= id
    IN SelectSeq(ids, Greater) \o <<id>> \o SelectSeq(ids, NotGreater)

\* bfs: the loop over the queue of nodes; the labels afterwards
RECURSIVE bfs_loop(_, _, _, _)
bfs_loop(nodes, q, cid, lbls) ==
    IF q = <<>> THEN lbls
    ELSE LET node == Head(q)
             n_data == Len(nodes) + 1
             q1 == IF node.left >= n_data
                   THEN Append(Tail(q), nodes[node.left - n_data + 1]) ELSE Tail(q)
             lbls1 == IF node.left >= n_data THEN lbls ELSE [lbls EXCEPT ![node.left + 1] = cid]
             q2 == IF node.right >= n_data
                   THEN Append(q1, nodes[node.right - n_data + 1]) ELSE q1
             lbls2 == IF node.right >= n_data THEN lbls1 ELSE [lbls1 EXCEPT ![node.right + 1] = cid]
         IN bfs_loop(nodes, q2, cid, lbls2)

bfs(nodes, root_node_id, cid, lbls) ==
    bfs_loop(nodes, <<nodes[root_node_id - (Len(nodes) + 1) + 1]>>, cid, lbls)

\* squared distance of two points of the tests of hierarchical/algorithm.rs,
\* in quarters (the coordinates are doubled)
HierTestPoints == << <<0, 0>>, <<2, 2>>, <<4, 3>>, <<2, 0>>, <<4, 4>>, <<5, 6>> >>

HierTestMatrix ==
    [u \in 1..Len(HierTestPoints) |-> [v \in 1..Len(HierTestPoints) |->
        (HierTestPoints[u][1] - HierTestPoints[v][1]) * (HierTestPoints[u][1] - HierTestPoints[v][1])
        + (HierTestPoints[u][2] - HierTestPoints[v][2]) * (HierTestPoints[u][2] - HierTestPoints[v][2])]]

InitHier == InitGraph(WeightFns \cup {HierTestMatrix}) /\ HierIdle /\ InitializerIdle

\* fit after MinimumSpanningTree::build has returned (an empty dataset
\* returns before build is called)
HierFit ==
    /\ graph_pc = "done"
    /\ hier_pc = "idle"
    /\ IF weight_fn = <<>>
       THEN hierarchy' = <<>>
       ELSE \E sorted \in SortedOrders(spanning_tree.edges) :
                hierarchy' = FitNodes(UnionFindNew(Len(sorted) + 1), sorted, 1, <<>>)
    /\ hier_pc' = "fitted"
    /\ UNCHANGED <<partition_k, node_ids, partition_labels, partition_cluster_id, undone>>
    /\ UNCHANGED <<kdvars, callvars, fitvars, extractvars, colorvars, graphvars, ufvars, initvars>>

\* partition(k) up to its first loop
PartitionCall ==
    /\ hier_pc = "fitted"
    /\ \E k \in 0..(Len(hierarchy) + 2) :
           /\ partition_k' = k
           /\ IF k > Len(hierarchy) + 1
              THEN hier_pc' = "assert" /\ UNCHANGED <<node_ids, partition_labels>>
              ELSE /\ partition_labels' = [i \in 1..(Len(hierarchy) + 1) |-> 0]
                   /\ IF k < 2
                      THEN hier_pc' = "done" /\ UNCHANGED node_ids
                      ELSE hier_pc' = "split" /\ node_ids' = HeapPush(<<>>, Len(hierarchy) * 2)
    /\ UNCHANGED <<hierarchy, partition_cluster_id, undone>>
    /\ UNCHANGED <<kdvars, callvars, fitvars, extractvars, colorvars, graphvars, ufvars, initvars>>

\* One test of `while node_ids.len() < k`, and its body
PartitionSplit ==
    /\ hier_pc = "split"
    /\ IF Len(node_ids) < partition_k /\ node_ids # <<>>
       THEN IF Head(node_ids) < Len(hierarchy) + 1 \/ Head(node_ids) - (Len(hierarchy) + 1) >= Len(hierarchy)
            THEN /\ hier_pc' = "index"
                 /\ node_ids' = Tail(node_ids)
                 /\ UNCHANGED <<undone, partition_cluster_id>>
            ELSE /\ node_ids' =
                        HeapPush(HeapPush(Tail(node_ids),
                                          hierarchy[Head(node_ids) - (Len(hierarchy) + 1) + 1].left),
                                 hierarchy[Head(node_ids) - (Len(hierarchy) + 1) + 1].right)
                 /\ undone' = Append(undone, Head(node_ids))
                 /\ UNCHANGED <<hier_pc, partition_cluster_id>>
       ELSE /\ hier_pc' = "label"
            /\ partition_cluster_id' = 0
            /\ UNCHANGED <<node_ids, undone>>
    /\ UNCHANGED <<hierarchy, partition_k, partition_labels>>
    /\ UNCHANGED <<kdvars, callvars, fitvars, extractvars, colorvars, graphvars, ufvars, initvars>>

\* One `node_ids.pop()` of the second loop, and its body; partition returns
\* the labels on the empty heap
PartitionLabel ==
    /\ hier_pc = "label"
    /\ IF node_ids = <<>>
       THEN hier_pc' = "done" /\ UNCHANGED <<node_ids, partition_labels, partition_cluster_id>>
       ELSE /\ node_ids' = Tail(node_ids)
            /\ partition_labels' =
                   IF Head(node_ids) >= Len(hierarchy) + 1
                   THEN bfs(hierarchy, Head(node_ids), partition_cluster_id, partition_labels)
                   ELSE [partition_labels EXCEPT ![Head(node_ids) + 1] = partition_cluster_id]
            /\ partition_cluster_id' = partition_cluster_id + 1
            /\ UNCHANGED hier_pc
    /\ UNCHANGED <<hierarchy, partition_k, undone>>
    /\ UNCHANGED <<kdvars, callvars, fitvars, extractvars, colorvars, graphvars, ufvars, initvars>>

NextHier == NextMST \/ HierFit \/ PartitionCall \/ PartitionSplit \/ PartitionLabel

SpecHier == InitHier /\ [][NextHier]_vars

-----------------------------------------------------------------------------
(* Specification SpecInit: Initializer::initialize, one step per loop       *)
(* iteration; every rng.gen_range(0..dataset.len()) is any index.           *)

\* the enumerated datasets hold 0..MaxInitPoints points
MaxInitPoints == 4

\* on a line, at these x
InitCoords == {0, 1, 3}

InitDatasets == SeqsUpTo({<<x, 0>> : x \in InitCoords}, MaxInitPoints)

\* dataset of the tests of kmeans/init.rs
InitTestDataset == << <<1, 2>>, <<3, 1>>, <<4, 5>>, <<5, 5>>, <<2, 4>> >>

Initializers == {"Random", "KmeansPlusPlus"}

\* Vec::insert(index, element): the elements from index on move one place up
VecInsert(flags, index, flag) ==
    SubSeq(flags, 1, index) \o <<flag>> \o SubSeq(flags, index + 1, Len(flags))

\* kmeans_plus_plus: centroids.iter().map(measure).min_by(..), the least
\* distance of the point to a centroid (centroids is never empty there)
MinDistance(measure, point, cents) ==
    LET ds == {Measure(measure, point, cents[c]) : c \in 1..Len(cents)}
    IN CHOOSE d \in ds : \A other \in ds : d <= other

\* kmeans_plus_plus: the closure mapped over the dataset, as the distances by index
Scores(ds, measure, flags, cents) ==
    [i \in 1..Len(ds) |-> IF flags[i] THEN 0 ELSE MinDistance(measure, ds[i], cents)]

\* Iterator::max_by: the index of the last of the greatest scores
Furthest(scores) ==
    (CHOOSE i \in 1..Len(scores) :
        /\ \A j \in 1..Len(scores) : scores[j] <= scores[i]
        /\ \A j \in (i + 1)..Len(scores) : scores[j] < scores[i]) - 1

InitInit ==
    /\ dataset \in InitDatasets \cup {InitTestDataset}
    /\ distance \in Measures
    /\ unit = 1 /\ tie = "stable" /\ root = <<>>
    /\ call = NoCall /\ neighbors = <<>> /\ linear = <<>>
    /\ initializer \in Initializers
    /\ init_k \in 0..(Len(dataset) + 1)
    /\ init_pc = "start"
    /\ selected = <<>>
    /\ init_centroids = <<>>
    /\ chosen = <<>>
    /\ FitIdle
    /\ ExtractIdle
    /\ ColorIdle
    /\ GraphIdle
    /\ UnionFindIdle
    /\ HierIdle

\* initialize, and random / kmeans_plus_plus up to their loop
InitializeCall ==
    /\ init_pc = "start"
    /\ IF init_k = 0
       THEN /\ init_pc' = "done"
            /\ UNCHANGED <<selected, init_centroids, chosen>>
       ELSE IF init_k >= Len(dataset)
       THEN /\ init_pc' = "done"
            /\ init_centroids' = dataset
            /\ chosen' = [i \in 1..Len(dataset) |-> i - 1]
            /\ UNCHANGED selected
       ELSE IF initializer = "Random"
       THEN /\ init_pc' = "random"
            /\ selected' = [i \in 1..Len(dataset) |-> FALSE]
            /\ UNCHANGED <<init_centroids, chosen>>
       ELSE \E index \in 0..(Len(dataset) - 1) :
                /\ init_pc' = "kpp"
                /\ selected' = VecInsert([i \in 1..Len(dataset) |-> FALSE], index, TRUE)
                /\ init_centroids' = <<dataset[index + 1]>>
                /\ chosen' = <<index>>
    /\ UNCHANGED <<initializer, init_k>>
    /\ UNCHANGED <<kdvars, callvars, fitvars, extractvars, colorvars, graphvars, ufvars, hiervars>>

\* random: one test of `while centroids.len() < k`, and its body
RandomStep ==
    /\ init_pc = "random"
    /\ IF Len(init_centroids) < init_k
       THEN \E index \in 0..(Len(dataset) - 1) :
                IF selected[index + 1]
                THEN UNCHANGED <<init_pc, selected, init_centroids, chosen>>
                ELSE /\ selected' = VecInsert(selected, index, TRUE)
                     /\ init_centroids' = Append(init_centroids, dataset[index + 1])
                     /\ chosen' = Append(chosen, index)
                     /\ UNCHANGED init_pc
       ELSE /\ init_pc' = "done"
            /\ UNCHANGED <<selected, init_centroids, chosen>>
    /\ UNCHANGED <<initializer, init_k>>
    /\ UNCHANGED <<kdvars, callvars, fitvars, extractvars, colorvars, graphvars, ufvars, hiervars>>

\* kmeans_plus_plus: one test of `while centroids.len() < k`, and its body
KmeansPlusPlusStep ==
    /\ init_pc = "kpp"
    /\ IF Len(init_centroids) < init_k
       THEN \E index \in {Furthest(Scores(dataset, distance, selected, init_centroids))} :
                /\ selected' = VecInsert(selected, index, TRUE)
                /\ init_centroids' = Append(init_centroids, dataset[index + 1])
                /\ chosen' = Append(chosen, index)
                /\ UNCHANGED init_pc
       ELSE /\ init_pc' = "done"
            /\ UNCHANGED <<selected, init_centroids, chosen>>
    /\ UNCHANGED <<initializer, init_k>>
    /\ UNCHANGED <<kdvars, callvars, fitvars, extractvars, colorvars, graphvars, ufvars, hiervars>>

NextInit == InitializeCall \/ RandomStep \/ KmeansPlusPlusStep

SpecInit == InitInit /\ [][NextInit]_vars

-----------------------------------------------------------------------------
(* Claims about the minimum spanning tree (SpecMST, FairMST) *)

\* the vertices reached from `seen` along the pairs `prs`, in either direction
RECURSIVE Reach(_, _)
Reach(prs, seen) ==
    LET more == seen \cup {pr[2] : pr \in {q \in prs : q[1] \in seen}}
                     \cup {pr[1] : pr \in {q \in prs : q[2] \in seen}}
    IN IF more = seen THEN seen ELSE Reach(prs, more)

\* the edge as an unordered pair
PairOf(edge) == IF edge.u < edge.v THEN <<edge.u, edge.v>> ELSE <<edge.v, edge.u>>

PairsOf(tree_edges) == {PairOf(tree_edges[i]) : i \in 1..Len(tree_edges)}

\* n - 1 different pairs that connect the n vertices: a tree, so without a cycle
IsSpanningTree(n, prs) ==
    /\ Cardinality(prs) = n - 1
    /\ Reach(prs, {0}) = 0..(n - 1)

SpanningTrees(n) == {prs \in SUBSET Pairs(n) : IsSpanningTree(n, prs)}

RECURSIVE PairsWeight(_, _)
PairsWeight(w, prs) ==
    IF prs = {} THEN 0
    ELSE LET pr == CHOOSE q \in prs : TRUE
         IN WeightOf(w, pr[1], pr[2]) + PairsWeight(w, prs \ {pr})

RECURSIVE EdgesWeight(_)
EdgesWeight(tree_edges) ==
    IF tree_edges = <<>> THEN 0
    ELSE Head(tree_edges).weight + EdgesWeight(Tail(tree_edges))

\* C27: build terminates; over n >= 1 vertices and a symmetric weight
\* function the tree it returns has exactly n - 1 edges, each with the weight
\* of its two vertices, that connect all n vertices without a cycle, and no
\* spanning tree weighs less; weight() is the sum of the returned edges'
\* weights; an empty vertex list gives no edges and the weight 0.
C27_MinimumSpanningTree ==
    /\ <>(graph_pc = "done")
    /\ [](graph_pc = "done" =>
            /\ spanning_tree.weight = EdgesWeight(spanning_tree.edges)
            /\ weight_fn = <<>> => (spanning_tree.edges = <<>> /\ spanning_tree.weight = 0)
            /\ (weight_fn # <<>> /\ Symmetric(weight_fn)) =>
                   /\ Len(spanning_tree.edges) = NVertices(weight_fn) - 1
                   /\ IsSpanningTree(NVertices(weight_fn), PairsOf(spanning_tree.edges))
                   /\ \A i \in 1..Len(spanning_tree.edges) :
                          spanning_tree.edges[i].weight =
                              WeightOf(weight_fn, spanning_tree.edges[i].u, spanning_tree.edges[i].v)
                   /\ \A prs \in SpanningTrees(NVertices(weight_fn)) :
                          spanning_tree.weight <= PairsWeight(weight_fn, prs))

\* build has returned a tree over MaxVertices vertices that is not the star
\* around the first vertex attached, lighter than some other spanning tree,
\* with stale candidates left on the heap
C27_Witness ==
    /\ graph_pc = "done"
    /\ NVertices(weight_fn) = MaxVertices
    /\ Symmetric(weight_fn)
    /\ \E i \in 1..Len(spanning_tree.edges) : spanning_tree.edges[i].u # MaxVertices - 1
    /\ \E prs \in SpanningTrees(MaxVertices) : spanning_tree.weight < PairsWeight(weight_fn, prs)
    /\ \E edge \in candidates : edge.v \in attached

-----------------------------------------------------------------------------
(* Claims about the UnionFind (SpecUF, FairUF) *)

\* the root a node resolves to: the end of its chain of parents
RECURSIVE RootOf(_, _)
RootOf(parent, x) == IF parent[x + 1] = x THEN x ELSE RootOf(parent, parent[x + 1])

\* the original elements, and the nodes in use
Elements(uf) == 0..(NElements(uf) - 1)
Nodes(uf) == 0..(uf.next_label - 1)

\* the roots a union step has given a parent
MergedRoots == {r \in Roots(union_find) : union_find'.parent[r + 1] # r}

\* C29: the j-th union (of two different current roots) allocates the label
\* n + j - 1 and returns the number of original elements in the merged set;
\* afterwards every node of the two merged sets resolves to that label and
\* every other node to the root it had; no step of find changes the root any
\* node resolves to; find returns the root of its argument; and every find
\* that was called returns.
C29_UnionFind ==
    /\ [][n_unions' = n_unions + 1 =>
              /\ n_unions' <= NElements(union_find) - 1
              /\ union_find.next_label = NElements(union_find) + n_unions' - 1
              /\ union_find'.next_label = union_find.next_label + 1
              /\ Cardinality(MergedRoots) = 2
              /\ \A e \in Nodes(union_find) :
                     RootOf(union_find'.parent, e) =
                         IF RootOf(union_find.parent, e) \in MergedRoots
                         THEN union_find.next_label
                         ELSE RootOf(union_find.parent, e)
              /\ uf_return' =
                     [op |-> "union",
                      value |-> Cardinality({e \in Elements(union_find) :
                                    RootOf(union_find'.parent, e) = union_find.next_label})]]_vars
    /\ [][uf_pc # "idle" =>
              \A e \in 0..(Len(union_find.parent) - 1) :
                  RootOf(union_find'.parent, e) = RootOf(union_find.parent, e)]_vars
    /\ [][(uf_pc = "compress" /\ uf_pc' = "idle") =>
              uf_return' = [op |-> "find", value |-> RootOf(union_find.parent, find_x)]]_vars
    /\ (uf_pc # "idle") ~> (uf_pc = "idle")

\* after union(0, 1), union(4, 2), union(5, 3) over four elements,
\* find(0) has returned 6 and has made node 4 a child of the root
C29_Witness ==
    /\ uf_pc = "idle"
    /\ n_unions = 3
    /\ union_find.parent = <<4, 4, 5, 6, 6, 6, 6, 7>>
    /\ uf_return = [op |-> "find", value |-> 6]
    /\ find_x = 0

-----------------------------------------------------------------------------
(* Claims about HierarchicalClustering::partition (SpecHier) *)

\* the merges that made node c a child, as indices of the hierarchy
MergesOf(nodes, c) == {i \in 1..Len(nodes) : nodes[i].left = c \/ nodes[i].right = c}

\* the node that c belongs to when only the merges with an id below `limit` count
RECURSIVE TopBelow(_, _, _)
TopBelow(nodes, c, limit) ==
    IF \E i \in MergesOf(nodes, c) : Len(nodes) + i < limit
    THEN TopBelow(nodes, Len(nodes) + (CHOOSE i \in MergesOf(nodes, c) : TRUE), limit)
    ELSE c

\* C28: fitted on n >= 1 points, partition(k) with 1 <= k <= n returns n
\* labels whose values are exactly 0..k-1; its first loop undoes the last
\* k - 1 merges, latest first, and two points share a label exactly when the
\* merges left join them; it never indexes the hierarchy out of range; and
\* partition(k) with k > n fails its assertion.
C28_PartitionLabels ==
    weight_fn # <<>> =>
        /\ hier_pc # "index"
        /\ (hier_pc # "idle" /\ hier_pc # "fitted" /\ partition_k > NVertices(weight_fn)) => hier_pc = "assert"
        /\ (hier_pc = "assert") => partition_k > NVertices(weight_fn)
        /\ (hier_pc = "done" /\ partition_k >= 1) =>
               /\ Len(partition_labels) = NVertices(weight_fn)
               /\ {partition_labels[i] : i \in 1..Len(partition_labels)} = 0..(partition_k - 1)
               /\ Len(undone) = partition_k - 1
               /\ \A i \in 1..Len(undone) : undone[i] = 2 * NVertices(weight_fn) - 1 - i
               /\ \A i \in 1..Len(partition_labels) : \A j \in 1..Len(partition_labels) :
                      (partition_labels[i] = partition_labels[j]) <=>
                          (TopBelow(hierarchy, i - 1, 2 * NVertices(weight_fn) - partition_k)
                               = TopBelow(hierarchy, j - 1, 2 * NVertices(weight_fn) - partition_k))

\* partition(3) over four points has returned: two merges undone, one
\* cluster of two points labelled by bfs and two single points
C28_Witness ==
    /\ hier_pc = "done"
    /\ NVertices(weight_fn) = 4
    /\ partition_k = 3
    /\ Len(undone) = 2
    /\ \E i \in 1..4 : \E j \in 1..4 : i # j /\ partition_labels[i] = partition_labels[j]

-----------------------------------------------------------------------------
(* Claims about Initializer::initialize (SpecInit) *)

ChosenSet == {chosen[i] : i \in 1..Len(chosen)}

\* C30: with 0 < k < N, initialize returns exactly k centroids, taken from k
\* pairwise distinct dataset indices, whatever the generator draws; and each
\* centroid kmeans_plus_plus pushes after the first is a point not chosen
\* yet whose least distance to the centroids so far is the largest.
C30_DistinctCentroids ==
    /\ []((init_pc = "done" /\ 0 < init_k /\ init_k < Len(dataset)) =>
             /\ Len(init_centroids) = init_k
             /\ Len(chosen) = init_k
             /\ \A i \in 1..Len(chosen) : init_centroids[i] = dataset[chosen[i] + 1]
             /\ \A i \in 1..Len(chosen) : \A j \in 1..Len(chosen) : chosen[i] = chosen[j] => i = j)
    /\ [][(init_pc = "kpp" /\ Len(chosen') = Len(chosen) + 1) =>
             /\ chosen'[Len(chosen')] \notin ChosenSet
             /\ \A j \in (0..(Len(dataset) - 1)) \ ChosenSet :
                    MinDistance(distance, dataset[j + 1], init_centroids)
                        <= MinDistance(distance, dataset[chosen'[Len(chosen')] + 1], init_centroids)]_vars

====
